---------------------------- MODULE Spec2Model ----------------------------
(***************************************************************************)
(* Model of the stateful gallery-walk harness (research/scripts/           *)
(* run_stateful.py): the response parser parse_reflection_and_state, the   *)
(* walk run_gallery_walk, the part of main() that drives it, the prompt    *)
(* reconstruction of --evaluate-only, and the judge of                     *)
(* eval_pipeline/evaluator.py; with it the score aggregator                *)
(* (eval_pipeline/summarize.py), the reference resolver of                 *)
(* scripts/freeze_artifacts.py and the four-step orchestrator              *)
(* scripts/run_contrastive.py.                                             *)
(*                                                                         *)
(* Text is a sequence of tokens.  A token is a string of the text that no  *)
(* regular expression of the parser can split: a marker, one whitespace    *)
(* character, one star, one colon, or a plain word.                        *)
(***************************************************************************)
EXTENDS Integers, Sequences, FiniteSets, TLC

VARIABLES
    \* ---- parser harness
    lines,      \* the line shapes the input text was built from (<<>> for a form)
    form,       \* <<f>>: the decorated canonical form the text was built from, or <<>>
    text,       \* the argument of parse_reflection_and_state
    parsed,     \* <<>> before the call, <<[reflection, state]>> after it
    reply,      \* the argument of _parse_judge_response
    judged,     \* <<>> before the call, <<[score, rationale]>> after it
    context,    \* <<>>, or <<c>>: a judge context built for one position of images
    \* ---- what main() reads: the experiment directory
    frozen_dir,     \* <<>>: no artifacts/ directory; <<d>>: d maps file name to content
    variants_file,  \* <<>>: no variants.yaml; <<l>>: its list of variants
    images,         \* config.images, in configured order
    \* ---- main()
    pc,             \* where main() is
    profile, style, initial_state,
    variants,
    vi,             \* index of the variant of "for v in variants"
    all_results, all_assembled_prompts, assembled_prompt_records,
    run_dir,        \* <<>>: nothing saved; <<d>>: the files save_run wrote
    \* ---- run_gallery_walk()
    i,              \* index of the image of "for i, image in enumerate(images)"
    current_state, results, assembled_prompts,
    next_id,        \* the ids uuid4 has handed out so far
    \* ---- the provider, and what each step of a walk was given
    calls,          \* every provider.generate call, in the order issued
    walk_log,       \* per step: the state it was given, the response, the state after
    failure,        \* "none", or what raised: "image", "provider", "judge"
    \* ---- evaluation: _build_prompts_for_eval / _evaluate_existing / evaluate_results
    eval_dir,       \* <<>>, or <<d>>: the run directory --evaluate-only was given
    eval_results,   \* the results handed to evaluate_results
    prompts_for_eval,
    tier,           \* 0, or the source _rebuild_prompts_for_eval took: 1, 2, 3
    console,        \* what _rebuild_prompts_for_eval printed
    criteria,       \* criteria.yaml, loaded
    judge,          \* the judge model's behaviour
    image_map,      \* what _build_image_map returned
    ri, ci,         \* "for result in results", "for criterion in criteria"
    scores,         \* the EvalScore list of evaluate_results
    judge_calls,    \* every judge call, in the order issued
    \* ---- the score aggregator (eval_pipeline/summarize.py) and show_run
    experiment,     \* <<runs>>: the run directories of output/<experiment>, by name
    summary,        \* <<s>>: what summarize_experiment returned
    singles,        \* per run directory, <<s>>: what summarize_single_run returned
    shown,          \* <<t>>: the score table show_run printed last
    \* ---- freeze_artifacts.py
    path_spec,      \* the reference given to _load_from_results, as tokens
    results_json,   \* <<results>>: the results file "gen.json", None when absent
    resolved,       \* <<outcome>>: what _load_from_results returned or raised
    \* ---- the scores of the saved run
    scores_json,    \* <<scores>>: scores.json of the run directory, None when absent
    evaluations,    \* how many evaluations have saved their scores
    \* ---- run_contrastive.py
    opc,            \* where run_2x2 stands: "start", "step1" .. "step4", "complete", "exit"
    dry_run,        \* --dry-run
    listing,        \* <<names>>: the entries of output/<experiment>, None when absent
    before, gpt_run_dir,            \* the locals of run_2x2
    before_claude, claude_run_dir,
    executed,       \* every subprocess run, in order, with what it created
    exit_status     \* <<n>>: the status the orchestrator exited with

parseVars == <<lines, form, text, parsed, reply, judged, context>>
diskVars == <<frozen_dir, variants_file, images>>
mainVars == <<pc, profile, style, initial_state, variants, vi, all_results,
              all_assembled_prompts, assembled_prompt_records, run_dir>>
walkVars == <<i, current_state, results, assembled_prompts, next_id>>
logVars == <<calls, walk_log, failure>>
runVars == <<diskVars, mainVars, walkVars, logVars>>
runVarsButPc == <<diskVars, profile, style, initial_state, variants, vi, all_results,
                  all_assembled_prompts, assembled_prompt_records, run_dir, walkVars,
                  logVars>>
evalVars == <<eval_dir, eval_results, prompts_for_eval, tier, console, criteria, judge,
              image_map, ri, ci, scores, judge_calls>>
sumVars == <<experiment, summary, singles, shown>>
freezeVars == <<path_spec, results_json, resolved>>
storeVars == <<scores_json, evaluations>>
orchVars == <<opc, dry_run, listing, before, gpt_run_dir, before_claude, claude_run_dir,
              executed, exit_status>>
auxVars == <<sumVars, freezeVars, storeVars, orchVars>>
vars == <<parseVars, runVars, evalVars, auxVars>>

-----------------------------------------------------------------------------
(* Bounds *)

\* the evaluations of one saved run
MaxEvaluations == 2

\* number of lines of an input text built from line shapes
MaxLines == 3
\* number of images of a configured image list
MaxImages == 2
\* number of tokens of a judge reply
MaxReply == 4
\* number of images of an image list a judge context is built for
MaxShown == 3

-----------------------------------------------------------------------------
(* Tokens *)

SP == " "
NL == "\n"
STAR == "*"
COLON == ":"

\* re.IGNORECASE: every letter case of a marker matches
ReflectionTags == {"[REFLECTION]", "[reflection]"}
StateTags == {"[STATE]", "[state]"}
LegacyReflection == {"Reflection:"}
LegacyState == {"State:"}
OldReaction == {"Reaction:"}
\* the only token that begins with "Internal state"
OldInternalState == {"Internal state after this image:"}

\* \s of the regular expressions
IsSpace(t) == t \in {SP, NL}

Min(S) == CHOOSE x \in S : \A y \in S : x <= y
Max(S) == CHOOSE x \in S : \A y \in S : x >= y

\* str.strip(): leading and trailing whitespace removed
strip(s) ==
    LET n == Len(s)
        keep == {j \in 1..n : ~IsSpace(s[j])}
    IN IF keep = {} THEN <<>> ELSE SubSeq(s, Min(keep), Max(keep))

\* \s* (greedy) from position at: the first position that holds no whitespace
SkipSpace(s, at) ==
    Min({j \in at..(Len(s) + 1) : j = Len(s) + 1 \/ ~IsSpace(s[j])})

\* \*{0,2} (greedy) from position at
SkipStars(s, at) ==
    IF at <= Len(s) /\ s[at] = STAR
    THEN IF at + 1 <= Len(s) /\ s[at + 1] = STAR THEN at + 2 ELSE at + 1
    ELSE at

\* The first position of s that holds a token of S, 0 when there is none
FirstIndex(s, S) ==
    LET hits == {j \in 1..Len(s) : s[j] \in S}
    IN IF hits = {} THEN 0 ELSE Min(hits)

\* \*{0,2}\s*:?\s*\n? after a canonical tag at position p: where group 1 starts.
\* Every quantifier is greedy and the rest of the pattern can always match, so
\* none of them gives anything back; \n? finds the newlines already consumed.
AfterTag(s, p) ==
    LET a == SkipStars(s, p + 1)
        b == SkipSpace(s, a)
        c == IF b <= Len(s) /\ s[b] = COLON THEN b + 1 ELSE b
    IN SkipSpace(s, c)

\* Mutant: the look-ahead does not allow for bold markup, \n\s*\[STATE\]
LookStateTag_NoBold(s, j) ==
    /\ j <= Len(s)
    /\ s[j] = NL
    /\ LET q == SkipSpace(s, j + 1)
       IN q <= Len(s) /\ s[q] \in StateTags

\* The look-ahead \n\s*\*{0,2}\[STATE\]\*{0,2} at position j
LookStateTag(s, j) ==
    /\ j <= Len(s)
    /\ s[j] = NL
    /\ LET q == SkipSpace(s, j + 1)
       IN \E k \in 0..2 :
             /\ q + k <= Len(s)
             /\ \A m \in 0..(k - 1) : s[q + m] = STAR
             /\ s[q + k] \in StateTags

\* The look-ahead \n\s*<marker> at position j, for a marker that is one token
LookToken(s, j, S) ==
    /\ j <= Len(s)
    /\ s[j] = NL
    /\ LET q == SkipSpace(s, j + 1)
       IN q <= Len(s) /\ s[q] \in S

\* ([\s\S]*?)$ without re.MULTILINE: $ matches at the end of the (stripped) text
EndOfText(s) == Len(s) + 1

\* ([\s\S]*?)$ under re.MULTILINE: $ also matches before every newline, and the
\* lazy group stops at the first place it does
EndOfLine(s, g) ==
    Min({j \in g..(Len(s) + 1) : j = Len(s) + 1 \/ s[j] = NL})

\* <marker>\s*\n : the marker occurrences whose whitespace run holds a newline
NeedsNewline(s) ==
    {p \in 1..Len(s) : \E j \in (p + 1)..(SkipSpace(s, p + 1) - 1) : s[j] = NL}

\* ... and where group 1 starts: after the last newline of that run (\s* is
\* greedy and gives back only as far as the \n needs)
AfterLastNewline(s, p) ==
    Max({j \in (p + 1)..(SkipSpace(s, p + 1) - 1) : s[j] = NL}) + 1

\* A match object is <<group(1)>>; None is <<>>.
Match(s, g, e) == << SubSeq(s, g, e - 1) >>
None == <<>>

-----------------------------------------------------------------------------
(* parse_reflection_and_state *)

reflection_match(raw) ==
    LET p == FirstIndex(raw, ReflectionTags)
    IN IF p = 0 THEN None
       ELSE LET g == AfterTag(raw, p)
                e == Min({j \in g..(Len(raw) + 1) :
                            LookStateTag(raw, j) \/ j = EndOfText(raw)})
            IN Match(raw, g, e)

state_match(raw) ==
    LET p == FirstIndex(raw, StateTags)
    IN IF p = 0 THEN None
       ELSE LET g == AfterTag(raw, p)
            IN Match(raw, g, EndOfLine(raw, g))

legacy_reflection(raw) ==
    LET p == FirstIndex(raw, LegacyReflection)
    IN IF p = 0 THEN None
       ELSE LET g == SkipSpace(raw, p + 1)
                e == Min({j \in g..(Len(raw) + 1) :
                            LookToken(raw, j, LegacyState) \/ j = EndOfText(raw)})
            IN Match(raw, g, e)

legacy_state(raw) ==
    LET p == FirstIndex(raw, LegacyState)
    IN IF p = 0 THEN None
       ELSE LET g == SkipSpace(raw, p + 1)
            IN Match(raw, g, EndOfLine(raw, g))

old_reaction(raw) ==
    LET hits == {p \in NeedsNewline(raw) : raw[p] \in OldReaction}
    IN IF hits = {} THEN None
       ELSE LET g == AfterLastNewline(raw, Min(hits))
                e == Min({j \in g..(Len(raw) + 1) :
                            LookToken(raw, j, OldInternalState) \/ j = EndOfText(raw)})
            IN Match(raw, g, e)

\* Mutant: the newline after the marker is optional, as in the other patterns
old_state_SameLine(raw) ==
    LET p == FirstIndex(raw, OldInternalState)
    IN IF p = 0 THEN None
       ELSE LET g == SkipSpace(raw, p + 1)
            IN Match(raw, g, EndOfLine(raw, g))

old_state(raw) ==
    LET hits == {p \in NeedsNewline(raw) : raw[p] \in OldInternalState}
    IN IF hits = {} THEN None
       ELSE LET g == AfterLastNewline(raw, Min(hits))
            IN Match(raw, g, EndOfLine(raw, g))

Pair(r, s) == [reflection |-> r, state |-> s]

\* Mutant: the canonical rule is applied half by half, like the oldest one
parse_CanonicalHalves(t) ==
    LET raw == strip(t)
    IN IF reflection_match(raw) # None \/ state_match(raw) # None
       THEN Pair(IF reflection_match(raw) # None
                 THEN strip(reflection_match(raw)[1]) ELSE raw,
                 IF state_match(raw) # None THEN strip(state_match(raw)[1]) ELSE <<>>)
       ELSE IF legacy_reflection(raw) # None /\ legacy_state(raw) # None
       THEN Pair(strip(legacy_reflection(raw)[1]), strip(legacy_state(raw)[1]))
       ELSE Pair(IF old_reaction(raw) # None THEN strip(old_reaction(raw)[1]) ELSE raw,
                 IF old_state(raw) # None THEN strip(old_state(raw)[1]) ELSE <<>>)

parse_reflection_and_state(t) ==
    LET raw == strip(t)
    IN IF reflection_match(raw) # None /\ state_match(raw) # None
       THEN Pair(strip(reflection_match(raw)[1]), strip(state_match(raw)[1]))
       ELSE IF legacy_reflection(raw) # None /\ legacy_state(raw) # None
       THEN Pair(strip(legacy_reflection(raw)[1]), strip(legacy_state(raw)[1]))
       ELSE Pair(IF old_reaction(raw) # None THEN strip(old_reaction(raw)[1]) ELSE raw,
                 IF old_state(raw) # None THEN strip(old_state(raw)[1]) ELSE <<>>)

-----------------------------------------------------------------------------
(* Input texts of the parser *)

\* Texts built line by line.  The content word of line k is Word[k], so that
\* the parts of a result can be told apart.
Word == <<"w1", "w2", "w3", "w4", "w5">>
PreWord == <<"p1", "p2", "p3", "p4", "p5">>
Headers == {"[REFLECTION]", "[STATE]", "Reflection:", "State:", "Reaction:",
            "Internal state after this image:"}
MidHeaders == {"[STATE]", "State:"}

Shapes ==
    {[kind |-> "blank", h |-> ""], [kind |-> "plain", h |-> ""]}
    \cup {[kind |-> k, h |-> h] : k \in {"head", "headtext"}, h \in Headers}
    \cup {[kind |-> "mid", h |-> h] : h \in MidHeaders}

LineOf(sh, k) ==
    CASE sh.kind = "blank" -> <<>>
      [] sh.kind = "plain" -> <<Word[k]>>
      [] sh.kind = "head" -> <<sh.h>>
      [] sh.kind = "headtext" -> <<sh.h, SP, Word[k]>>
      [] sh.kind = "mid" -> <<PreWord[k], SP, sh.h, SP, Word[k]>>

RECURSIVE JoinLines(_, _)
JoinLines(ls, k) ==
    IF k > Len(ls) THEN <<>>
    ELSE LineOf(ls[k], k) \o (IF k < Len(ls) THEN <<NL>> ELSE <<>>) \o JoinLines(ls, k + 1)

\* every text of up to MaxLines lines, and the four-line texts that open each
\* line with a different marker (two or three conventions present at once)
MarkerLines == {[kind |-> "headtext", h |-> h] : h \in Headers}
LineSeqs ==
    UNION {[1..n -> Shapes] : n \in 0..MaxLines}
    \cup {l \in [1..4 -> MarkerLines] : \A j, k \in 1..4 : j # k => l[j] # l[k]}

\* Texts in the canonical tagged form, each marker with its decorations:
\* bold markup, a colon, letter case, content on the same or on the next line.
Decos == [bold : BOOLEAN, colon : BOOLEAN, lower : BOOLEAN,
          sep : {<<SP>>, <<NL>>, <<NL, NL>>}]
PlainDeco == [bold |-> FALSE, colon |-> FALSE, lower |-> FALSE, sep |-> <<NL>>]
ReflectionTexts == {<<"r1">>, <<"r1", SP, "r2">>, <<"r1", NL, "r2">>}
StateTexts == {<<"s1">>, <<"s1", SP, "s2">>, <<"s1", NL, "s2">>}
Forms == [refl : ReflectionTexts, st : StateTexts, dr : Decos, ds : Decos]

Marker(upper, lowerTag, d) ==
    (IF d.bold THEN <<STAR, STAR>> ELSE <<>>)
    \o <<IF d.lower THEN lowerTag ELSE upper>>
    \o (IF d.bold THEN <<STAR, STAR>> ELSE <<>>)
    \o (IF d.colon THEN <<COLON>> ELSE <<>>)
    \o d.sep

FormText(f) ==
    Marker("[REFLECTION]", "[reflection]", f.dr) \o f.refl \o <<NL>>
    \o Marker("[STATE]", "[state]", f.ds) \o f.st

-----------------------------------------------------------------------------
(* The experiment directory main() reads *)

\* artifacts/ as freeze_artifacts.py leaves it, and with a file or all missing
FullDir == [profile_txt |-> <<"curious", NL>>,
            style_txt |-> <<SP, "terse">>,
            initial_state_txt |-> <<"calm", NL>>]
PartialDir == [profile_txt |-> <<"curious", NL>>, style_txt |-> <<SP, "terse">>]
FrozenDirs == {<<>>, <<PartialDir>>, <<FullDir>>}
ArtifactFiles == {"profile_txt", "style_txt", "initial_state_txt"}

\* prompts.yaml
BaseSystemPrompt == <<"sys-base">>
BaseTemplate == <<"You", "{profile}", "speak", "{style}", "feel", "{current_state}">>

\* variants.yaml: absent, present without variants, present with two variants
\* (the second leaves system_prompt out and so takes the base one)
RawVariant1 == [id |-> "v1", system_prompt |-> <<<<"sys-1">>>>,
                user_prompt_template |-> <<<<"{current_state}", "then", "{profile}", "{style}">>>>]
RawVariant2 == [id |-> "v2", system_prompt |-> <<>>,
                user_prompt_template |-> <<<<"as", "{style}", "from", "{current_state}">>>>]
VariantFiles == {<<>>, << <<>> >>, << <<RawVariant1, RawVariant2>> >>}

\* The images a configuration can list: one with a caption, one without, one
\* whose caption is the empty string.  caption is <<>> for None, <<c>> for c.
ImagePool == {[id |-> "a", caption |-> << <<"a", "bridge">> >>],
              [id |-> "b", caption |-> <<>>],
              [id |-> "c", caption |-> << <<>> >>]}
ImageLists ==
    {l \in UNION {[1..n -> ImagePool] : n \in 0..MaxImages} :
        \A j, k \in 1..Len(l) : j # k => l[j].id # l[k].id}

\* What the model under test may answer
Responses ==
    {<<"[REFLECTION]", NL, "r1", NL, "[STATE]", NL, NL, "restless">>,
     <<"Reflection:", SP, "r2", NL, "State:", SP, "weary">>,
     <<"r3">>,
     <<"[REFLECTION]", SP, "r4", NL, "[STATE]">>}

-----------------------------------------------------------------------------
(* main(): loading *)

\* Mutant: a missing file is read as an empty text
_load_artifacts_from_experiment_Defaults(dir) ==
    LET file(f) == IF dir # <<>> /\ f \in DOMAIN dir[1] THEN dir[1][f] ELSE <<>>
    IN << [profile |-> strip(file("profile_txt")),
           style |-> strip(file("style_txt")),
           initial_state |-> strip(file("initial_state_txt"))] >>

\* _load_artifacts_from_experiment: None unless the directory and its three
\* files exist; each text is stripped
_load_artifacts_from_experiment(dir) ==
    IF dir = <<>> THEN None
    ELSE IF \E f \in ArtifactFiles : f \notin DOMAIN dir[1] THEN None
    ELSE << [profile |-> strip(dir[1].profile_txt),
             style |-> strip(dir[1].style_txt),
             initial_state |-> strip(dir[1].initial_state_txt)] >>

\* v.get(key) or default
OrDefault(opt, default) == IF opt = <<>> \/ opt[1] = <<>> THEN default ELSE opt[1]

LoadVariant(v) ==
    [id |-> v.id,
     system_prompt |-> strip(OrDefault(v.system_prompt, BaseSystemPrompt)),
     user_prompt_template |-> strip(OrDefault(v.user_prompt_template, BaseTemplate))]

BaseVariant == [id |-> "base", system_prompt |-> BaseSystemPrompt,
                user_prompt_template |-> BaseTemplate]

LoadArtifacts ==
    /\ pc = "start"
    /\ LET frozen == _load_artifacts_from_experiment(frozen_dir)
       IN IF frozen = None
          THEN /\ pc' = "exit1"
               /\ UNCHANGED <<profile, style, initial_state>>
          ELSE /\ pc' = "variants"
               /\ profile' = frozen[1].profile
               /\ style' = frozen[1].style
               /\ initial_state' = frozen[1].initial_state
    /\ UNCHANGED <<auxVars, parseVars, evalVars, diskVars, variants, vi, all_results, all_assembled_prompts,
                   assembled_prompt_records, run_dir, walkVars, logVars>>

LoadVariants ==
    /\ pc = "variants"
    /\ IF variants_file = <<>>
       THEN variants' = <<BaseVariant>> /\ pc' = "loop"
       ELSE /\ variants' = [k \in 1..Len(variants_file[1]) |-> LoadVariant(variants_file[1][k])]
            /\ pc' = IF variants_file[1] = <<>> THEN "exit1" ELSE "loop"
    /\ vi' = 1
    /\ all_results' = <<>>
    /\ all_assembled_prompts' = <<>>
    /\ assembled_prompt_records' = <<>>
    /\ UNCHANGED <<auxVars, parseVars, evalVars, diskVars, profile, style, initial_state, run_dir,
                   walkVars, logVars>>

-----------------------------------------------------------------------------
(* run_gallery_walk *)

\* Mutant: the state field is always filled with the initial state
Field_InitialState(tok, p, st, cs) ==
    CASE tok = "{profile}" -> p
      [] tok = "{style}" -> st
      [] tok = "{current_state}" -> initial_state
      [] OTHER -> <<tok>>

\* str.format of one template field
Field(tok, p, st, cs) ==
    CASE tok = "{profile}" -> p
      [] tok = "{style}" -> st
      [] tok = "{current_state}" -> cs
      [] OTHER -> <<tok>>

\* user_prompt_template.format(profile=, style=, current_state=)
RECURSIVE format(_, _, _, _)
format(template, p, st, cs) ==
    IF template = <<>> THEN <<>>
    ELSE Field(Head(template), p, st, cs) \o format(Tail(template), p, st, cs)

\* if image.caption: (None and "" are both false)
HasCaption(image) == image.caption # <<>> /\ image.caption[1] # <<>>

WithCaption(user_prompt, image) ==
    IF HasCaption(image)
    THEN user_prompt \o <<NL, NL, "The image caption: \"">> \o image.caption[1] \o <<"\"">>
    ELSE user_prompt

UserPrompt(v, image, cs) ==
    WithCaption(format(v.user_prompt_template, profile, style, cs), image)

\* Mutant: the prompt is recorded before the caption is appended to it
RecordedPrompt_BeforeCaption(v, image, cs) ==
    format(v.user_prompt_template, profile, style, cs)

\* the prompt that assembled_prompts.append records
RecordedPrompt(v, image, cs) == UserPrompt(v, image, cs)

\* Mutant: the parsed state is taken even when it is empty
CarryForward_Reset(cs, new_state) == new_state

\* if new_state: current_state = new_state (else: warning, state kept)
CarryForward(cs, new_state) == IF new_state # <<>> THEN new_state ELSE cs

PromptVariantId(variant_id, image_id) == <<variant_id, "/", image_id>>

\* Mutant: only the first walk starts from the initial state
StartWalk_KeepState ==
    /\ pc = "loop"
    /\ vi <= Len(variants)
    /\ results' = <<>>
    /\ assembled_prompts' = <<>>
    /\ current_state' = IF vi = 1 THEN initial_state ELSE current_state
    /\ i' = 1
    /\ pc' = "walk"
    /\ UNCHANGED <<auxVars, parseVars, evalVars, diskVars, profile, style, initial_state, variants, vi,
                   all_results, all_assembled_prompts, assembled_prompt_records, run_dir,
                   next_id, logVars>>

\* lines 136-138: the walk's own results, prompts and state
StartWalk ==
    /\ pc = "loop"
    /\ vi <= Len(variants)
    /\ results' = <<>>
    /\ assembled_prompts' = <<>>
    /\ current_state' = initial_state
    /\ i' = 1
    /\ pc' = "walk"
    /\ UNCHANGED <<auxVars, parseVars, evalVars, diskVars, profile, style, initial_state, variants, vi,
                   all_results, all_assembled_prompts, assembled_prompt_records, run_dir,
                   next_id, logVars>>

\* lines 156: load_image_as_base64 raises ValueError
ImageLoadError ==
    /\ pc = "walk"
    /\ i <= Len(images)
    /\ pc' = "crashed"
    /\ failure' = "image"
    /\ UNCHANGED <<auxVars, parseVars, evalVars, diskVars, profile, style, initial_state, variants, vi,
                   all_results, all_assembled_prompts, assembled_prompt_records, run_dir,
                   walkVars, calls, walk_log>>

\* lines 153-176: the prompt is assembled, recorded and sent
WalkSend ==
    /\ pc = "walk"
    /\ i <= Len(images)
    /\ LET v == variants[vi]
           image == images[i]
       IN /\ assembled_prompts' = Append(assembled_prompts, RecordedPrompt(v, image, current_state))
          /\ calls' = Append(calls, [system_prompt |-> v.system_prompt,
                                    user_prompt |-> UserPrompt(v, image, current_state),
                                    image_id |-> image.id])
          /\ walk_log' = Append(walk_log, [v |-> vi, k |-> i, state_in |-> current_state,
                                          response |-> <<>>, state_out |-> <<>>])
    /\ pc' = "generate"
    /\ UNCHANGED <<auxVars, parseVars, evalVars, diskVars, profile, style, initial_state, variants, vi,
                   all_results, all_assembled_prompts, assembled_prompt_records, run_dir,
                   i, current_state, results, next_id, failure>>

\* Mutant: the error is caught and the walk goes on with the next image
ProviderError_Continue ==
    /\ pc = "generate"
    /\ pc' = "walk"
    /\ i' = i + 1
    /\ failure' = "provider"
    /\ UNCHANGED <<auxVars, parseVars, evalVars, diskVars, profile, style, initial_state, variants, vi,
                   all_results, all_assembled_prompts, assembled_prompt_records, run_dir,
                   current_state, results, assembled_prompts, next_id, calls, walk_log>>

\* lines 169-176: provider.generate raises; nothing catches it
ProviderError ==
    /\ pc = "generate"
    /\ pc' = "crashed"
    /\ failure' = "provider"
    /\ UNCHANGED <<auxVars, parseVars, evalVars, diskVars, profile, style, initial_state, variants, vi,
                   all_results, all_assembled_prompts, assembled_prompt_records, run_dir,
                   walkVars, calls, walk_log>>

\* Mutant: a response without a parsable state produces no result
ProviderReturn_SkipOnMiss(content) ==
    /\ pc = "generate"
    /\ LET new_state == parse_reflection_and_state(content).state
           image == images[i]
       IN /\ current_state' = CarryForward(current_state, new_state)
          /\ results' = IF new_state = <<>> THEN results
                        ELSE Append(results,
                               [id |-> next_id + 1,
                                prompt_variant_id |-> PromptVariantId(variants[vi].id, image.id),
                                image_id |-> image.id,
                                raw_response |-> content])
          /\ walk_log' = [walk_log EXCEPT ![Len(walk_log)] =
                              [@ EXCEPT !.response = <<content>>,
                                        !.state_out = <<current_state'>>]]
    /\ next_id' = next_id + 1
    /\ i' = i + 1
    /\ pc' = "walk"
    /\ UNCHANGED <<auxVars, parseVars, evalVars, diskVars, profile, style, initial_state, variants, vi,
                   all_results, all_assembled_prompts, assembled_prompt_records, run_dir,
                   assembled_prompts, calls, failure>>

\* lines 169-201: provider.generate returns resp; parse, carry the state, append
ProviderReturn(content) ==
    /\ pc = "generate"
    /\ LET new_state == parse_reflection_and_state(content).state
           image == images[i]
       IN /\ current_state' = CarryForward(current_state, new_state)
          /\ results' = Append(results,
                               [id |-> next_id + 1,
                                prompt_variant_id |-> PromptVariantId(variants[vi].id, image.id),
                                image_id |-> image.id,
                                raw_response |-> content])
          /\ walk_log' = [walk_log EXCEPT ![Len(walk_log)] =
                              [@ EXCEPT !.response = <<content>>,
                                        !.state_out = <<current_state'>>]]
    /\ next_id' = next_id + 1
    /\ i' = i + 1
    /\ pc' = "walk"
    /\ UNCHANGED <<auxVars, parseVars, evalVars, diskVars, profile, style, initial_state, variants, vi,
                   all_results, all_assembled_prompts, assembled_prompt_records, run_dir,
                   assembled_prompts, calls, failure>>

\* one record of assembled_prompt_records (main, lines 536-544)
PromptRecord(r, p, system_prompt) ==
    [result_id |-> r.id, prompt_variant_id |-> r.prompt_variant_id,
     system_prompt |-> system_prompt, user_prompt |-> p]

\* zip(results, assembled_prompts)
ZipLen(a, b) == IF Len(a) <= Len(b) THEN Len(a) ELSE Len(b)

\* Mutant: every walk that returns is saved at once
WalkReturn_SaveEach ==
    /\ pc = "walk"
    /\ i > Len(images)
    /\ all_results' = all_results \o results
    /\ all_assembled_prompts' = all_assembled_prompts \o assembled_prompts
    /\ assembled_prompt_records' = assembled_prompt_records \o
           [k \in 1..ZipLen(results, assembled_prompts) |->
               PromptRecord(results[k], assembled_prompts[k], variants[vi].system_prompt)]
    /\ run_dir' = << [config |-> [images |-> images],
                      artifacts |-> [profile |-> profile, style |-> style,
                                     initial_state |-> initial_state],
                      results |-> all_results',
                      assembled_prompts |-> <<assembled_prompt_records'>>] >>
    /\ vi' = vi + 1
    /\ pc' = "loop"
    /\ results' = <<>>
    /\ assembled_prompts' = <<>>
    /\ UNCHANGED <<auxVars, parseVars, evalVars, diskVars, profile, style, initial_state, variants,
                   i, current_state, next_id, logVars>>

\* lines 203-204 and main lines 534-544: the walk returns, main extends its lists
WalkReturn ==
    /\ pc = "walk"
    /\ i > Len(images)
    /\ all_results' = all_results \o results
    /\ all_assembled_prompts' = all_assembled_prompts \o assembled_prompts
    /\ assembled_prompt_records' = assembled_prompt_records \o
           [k \in 1..ZipLen(results, assembled_prompts) |->
               PromptRecord(results[k], assembled_prompts[k], variants[vi].system_prompt)]
    /\ vi' = vi + 1
    /\ pc' = "loop"
    /\ results' = <<>>
    /\ assembled_prompts' = <<>>
    /\ UNCHANGED <<auxVars, parseVars, evalVars, diskVars, profile, style, initial_state, variants, run_dir,
                   i, current_state, next_id, logVars>>

-----------------------------------------------------------------------------
(* main(): after the walks *)

\* Mutant: the records are rebuilt from the prompts with the base system prompt
save_run_BasePrompt(rs, artifacts, prompts, system_prompt, records) ==
    [config |-> [images |-> images],
     artifacts |-> artifacts,
     results |-> rs,
     assembled_prompts |->
        << [k \in 1..ZipLen(rs, prompts[1]) |->
               PromptRecord(rs[k], prompts[1][k], system_prompt)] >>]

\* save_run: what it writes (the records given win over the bare prompts)
save_run(rs, artifacts, prompts, system_prompt, records) ==
    [config |-> [images |-> images],
     artifacts |-> artifacts,
     results |-> rs,
     assembled_prompts |->
        IF records # None THEN records
        ELSE IF prompts # None
        THEN << [k \in 1..ZipLen(rs, prompts[1]) |->
                    PromptRecord(rs[k], prompts[1][k], system_prompt)] >>
        ELSE None]

\* lines 546-548
NoResults ==
    /\ pc = "loop"
    /\ vi > Len(variants)
    /\ all_results = <<>>
    /\ pc' = "exit1"
    /\ UNCHANGED <<auxVars, parseVars, evalVars, diskVars, profile, style, initial_state, variants, vi,
                   all_results, all_assembled_prompts, assembled_prompt_records, run_dir,
                   walkVars, logVars>>

\* lines 550-563
SaveRun ==
    /\ pc = "loop"
    /\ vi > Len(variants)
    /\ all_results # <<>>
    /\ run_dir' = << save_run(all_results,
                             [profile |-> profile, style |-> style,
                              initial_state |-> initial_state],
                             <<all_assembled_prompts>>, BaseSystemPrompt,
                             <<assembled_prompt_records>>) >>
    /\ pc' = "saved"
    /\ UNCHANGED <<auxVars, parseVars, evalVars, diskVars, profile, style, initial_state, variants, vi,
                   all_results, all_assembled_prompts, assembled_prompt_records,
                   walkVars, logVars>>

-----------------------------------------------------------------------------
(* Evaluation helpers: the judge's sequence context and the prompts *)

\* caption = img.caption or img.id
CaptionOrId(img) == IF HasCaption(img) THEN img.caption[1] ELSE <<img.id>>

\* f"  {i + 1}. {img.id}: \"{caption}\"", position counted from 1
ContextEntry(imgs, k) ==
    <<"  ", ToString(k), ". ", imgs[k].id, ": \"">> \o CaptionOrId(imgs[k]) \o <<"\"">>

\* "\n".join(lines)
RECURSIVE JoinNL(_)
JoinNL(ls) ==
    IF ls = <<>> THEN <<>>
    ELSE IF Len(ls) = 1 THEN ls[1]
    ELSE ls[1] \o <<NL>> \o JoinNL(Tail(ls))

\* Mutant: range(current_index + 1), the current image listed among the earlier ones
ContextLines_Inclusive(imgs, current_index) ==
    << <<"Images shown before the current one:">> >>
    \o [k \in 1..(current_index + 1) |-> ContextEntry(imgs, k)]
    \o << <<"Current image (", ToString(current_index + 1), " of ",
            ToString(Len(imgs)), "):">>,
          ContextEntry(imgs, current_index + 1) >>

\* the lines of _build_sequence_context for current_index > 0 (an index from 0)
ContextLines(imgs, current_index) ==
    << <<"Images shown before the current one:">> >>
    \o [k \in 1..current_index |-> ContextEntry(imgs, k)]
    \o << <<"Current image (", ToString(current_index + 1), " of ",
            ToString(Len(imgs)), "):">>,
          ContextEntry(imgs, current_index + 1) >>

_build_sequence_context(imgs, current_index) ==
    IF current_index = 0 THEN <<>> ELSE JoinNL(ContextLines(imgs, current_index))

\* {img.id: i for i, img in enumerate(images)}: <<>> for a missing key, else
\* <<index>> (from 0; the last position wins for a repeated id)
image_index(imgs, id) ==
    IF \E k \in 1..Len(imgs) : imgs[k].id = id
    THEN << (CHOOSE k \in 1..Len(imgs) :
                /\ imgs[k].id = id
                /\ \A m \in 1..Len(imgs) : imgs[m].id = id => m <= k) - 1 >>
    ELSE <<>>

PromptVariant(id, name, system_prompt, user_prompt, judge_context) ==
    [id |-> id, name |-> name, system_prompt |-> system_prompt,
     user_prompt |-> user_prompt, judge_context |-> judge_context]

\* Mutant: every prompt takes the base system prompt, the records are not read
_build_prompts_for_eval_BaseSystem(rs, prompts, system_prompt, imgs, records) ==
    [k \in 1..ZipLen(rs, prompts) |->
        PromptVariant(rs[k].prompt_variant_id,
                      <<"Stateful reflection (", rs[k].image_id, ")">>,
                      system_prompt,
                      prompts[k],
                      _build_sequence_context(imgs,
                          IF image_index(imgs, rs[k].image_id) = <<>> THEN 0
                          ELSE image_index(imgs, rs[k].image_id)[1]))]

\* _build_prompts_for_eval: records is <<>> for None, <<l>> for the list l
_build_prompts_for_eval(rs, prompts, system_prompt, imgs, records) ==
    LET recs == IF records # <<>> /\ Len(records[1]) # Len(rs) THEN <<>> ELSE records
    IN [k \in 1..ZipLen(rs, prompts) |->
        PromptVariant(rs[k].prompt_variant_id,
                      <<"Stateful reflection (", rs[k].image_id, ")">>,
                      IF recs # <<>> THEN recs[1][k].system_prompt ELSE system_prompt,
                      prompts[k],
                      _build_sequence_context(imgs,
                          IF image_index(imgs, rs[k].image_id) = <<>> THEN 0
                          ELSE image_index(imgs, rs[k].image_id)[1]))]

-----------------------------------------------------------------------------
(* _rebuild_prompts_for_eval: the prompts of an existing run *)

\* A run directory as --evaluate-only finds it: as save_run wrote it, written
\* before assembled_prompts.json existed, or with results.json alone.
\* Each file is <<>> when absent, <<content>> when present.
Layouts == {"full", "no_prompts", "bare"}

RunDirAs(d, layout) ==
    [results |-> d.results,
     artifacts |-> IF layout = "bare" THEN None ELSE <<d.artifacts>>,
     assembled_prompts |-> IF layout = "full" THEN d.assembled_prompts ELSE None]

\* _add_context: the context is set when the image id is a configured one
_add_context(variant, image_id, imgs) ==
    IF imgs # <<>> /\ image_index(imgs, image_id) # <<>>
    THEN [variant EXCEPT !.judge_context =
              _build_sequence_context(imgs, image_index(imgs, image_id)[1])]
    ELSE variant

\* result_map.get(prompt_variant_id, ""): the last result with the id wins
result_map(rs, pvid) ==
    IF \E k \in 1..Len(rs) : rs[k].prompt_variant_id = pvid
    THEN rs[CHOOSE k \in 1..Len(rs) :
                /\ rs[k].prompt_variant_id = pvid
                /\ \A m \in 1..Len(rs) : rs[m].prompt_variant_id = pvid => m <= k].image_id
    ELSE ""

\* Mutant: the base system prompt replaces the recorded one
ExactReplay_BaseSystem(records, rs, system_prompt, imgs) ==
    [k \in 1..Len(records) |->
        _add_context(PromptVariant(records[k].prompt_variant_id,
                                   <<"Stateful reflection">>,
                                   system_prompt,
                                   records[k].user_prompt,
                                   <<>>),
                     result_map(rs, records[k].prompt_variant_id), imgs)]

\* lines 667-682: one prompt per record of assembled_prompts.json
ExactReplay(records, rs, system_prompt, imgs) ==
    [k \in 1..Len(records) |->
        _add_context(PromptVariant(records[k].prompt_variant_id,
                                   <<"Stateful reflection">>,
                                   records[k].system_prompt,
                                   records[k].user_prompt,
                                   <<>>),
                     result_map(rs, records[k].prompt_variant_id), imgs)]

\* lines 709-711: if new_state: current_state = new_state
ReplayCarry(cs, new_state) == IF new_state # <<>> THEN new_state ELSE cs

\* the state lines 691-711 substitute for each result, in order
RECURSIVE ReplayStates(_, _)
ReplayStates(rs, cs) ==
    IF rs = <<>> THEN <<>>
    ELSE <<cs>> \o ReplayStates(Tail(rs),
                     ReplayCarry(cs, parse_reflection_and_state(Head(rs).raw_response).state))

\* lines 684-713: replay from artifacts.json and the raw responses
StateReplay(artifacts, rs, system_prompt, user_prompt_template, imgs) ==
    LET states == ReplayStates(rs, artifacts.initial_state)
    IN [k \in 1..Len(rs) |->
        _add_context(PromptVariant(rs[k].prompt_variant_id,
                                   <<"Stateful reflection (", rs[k].image_id, ")">>,
                                   system_prompt,
                                   format(user_prompt_template, artifacts.profile,
                                          artifacts.style, states[k]),
                                   <<>>),
                     rs[k].image_id, imgs)]

\* lines 719-730: the raw template for every result
RawTemplate(rs, system_prompt, user_prompt_template, imgs) ==
    [k \in 1..Len(rs) |->
        _add_context(PromptVariant(rs[k].prompt_variant_id,
                                   <<"Stateful reflection">>,
                                   system_prompt,
                                   user_prompt_template,
                                   <<>>),
                     rs[k].image_id, imgs)]

ReplayNotice == "No assembled_prompts.json found - reconstructing from artifacts + state replay."
RawTemplateWarning == "Warning: no assembled_prompts.json or artifacts.json found. Using raw template - adherence scores may be inaccurate."

\* Mutant: artifacts.json is looked for before assembled_prompts.json
SourceOf_ArtifactsFirst(d) ==
    IF d.artifacts # None THEN 2
    ELSE IF d.assembled_prompts # None THEN 1
    ELSE 3

\* the order of the is_file() tests, lines 668 and 685
SourceOf(d) ==
    IF d.assembled_prompts # None THEN 1
    ELSE IF d.artifacts # None THEN 2
    ELSE 3

\* Mutant: the fallbacks print nothing
Printed_Silent(source) == <<>>

\* what console.print shows for each source, lines 686-689 and 715-718
Printed(source) ==
    CASE source = 1 -> <<>>
      [] source = 2 -> <<ReplayNotice>>
      [] source = 3 -> <<RawTemplateWarning>>

_rebuild_prompts_for_eval(d, rs, system_prompt, user_prompt_template, imgs) ==
    CASE SourceOf(d) = 1 -> ExactReplay(d.assembled_prompts[1], rs, system_prompt, imgs)
      [] SourceOf(d) = 2 -> StateReplay(d.artifacts[1], rs, system_prompt,
                                        user_prompt_template, imgs)
      [] SourceOf(d) = 3 -> RawTemplate(rs, system_prompt, user_prompt_template, imgs)

-----------------------------------------------------------------------------
(* eval_pipeline/evaluator.py: the judge *)

Digits == {"0", "1", "2", "3", "4", "5", "6", "7", "8", "9"}

\* int() of one digit
DigitValue(d) ==
    CASE d = "0" -> 0 [] d = "1" -> 1 [] d = "2" -> 2 [] d = "3" -> 3 [] d = "4" -> 4
      [] d = "5" -> 5 [] d = "6" -> 6 [] d = "7" -> 7 [] d = "8" -> 8 [] d = "9" -> 9

\* re.search(r"SCORE:\s*(\d)", text): the digit of the leftmost match, or None
score_match(t) ==
    LET hits == {j \in 1..Len(t) :
                    /\ t[j] = "SCORE:"
                    /\ SkipSpace(t, j + 1) <= Len(t)
                    /\ t[SkipSpace(t, j + 1)] \in Digits}
    IN IF hits = {} THEN None ELSE << t[SkipSpace(t, Min(hits) + 1)] >>

\* re.search(r"RATIONALE:\s*(.+)", text, re.DOTALL): group 1 of the leftmost
\* match, or None.  (.+) needs one character, which \s* gives back when only
\* whitespace follows the marker.
rationale_match(t) ==
    LET hits == {j \in 1..Len(t) : t[j] = "RATIONALE:" /\ j < Len(t)}
    IN IF hits = {} THEN None
       ELSE LET a == SkipSpace(t, Min(hits) + 1)
            IN << SubSeq(t, IF a > Len(t) THEN Len(t) ELSE a, Len(t)) >>

\* Mutant: the digit is taken as it stands, max(1, min(5, score)) left out
Clamp_None(n) == n

\* max(1, min(5, score))
Clamp(n) == IF n < 1 THEN 1 ELSE IF n > 5 THEN 5 ELSE n

\* Mutant: without a score the rationale stays the whole reply
_parse_judge_response_RawWithoutScore(t) ==
    [score |-> IF score_match(t) # None THEN Clamp(DigitValue(score_match(t)[1])) ELSE 0,
     rationale |-> IF rationale_match(t) # None /\ score_match(t) # None
                   THEN strip(rationale_match(t)[1])
                   ELSE strip(t)]

_parse_judge_response(t) ==
    [score |-> IF score_match(t) # None THEN Clamp(DigitValue(score_match(t)[1])) ELSE 0,
     rationale |-> IF rationale_match(t) # None THEN strip(rationale_match(t)[1])
                   ELSE strip(t)]

JUDGE_SYSTEM_PROMPT == <<"You are an expert evaluator assessing LLM-generated responses to images.">>

\* JUDGE_USER_TEMPLATE.format(...)
JudgeUserPrompt(variant, result, criterion) ==
    <<"## Prompt sent to the model", NL, NL, "System: ">> \o variant.system_prompt
    \o <<NL, NL, "User: ">> \o variant.user_prompt
    \o <<NL, NL, "## Model response", NL, NL>> \o result.raw_response
    \o <<NL, NL, "## Evaluation criterion: ">> \o criterion.name
    \o <<NL, NL>> \o criterion.description
    \o <<NL, NL>> \o criterion.scoring_prompt
    \o <<NL, NL, "Score this response (1-5) according to the criterion above.">>

\* criteria.yaml: no criterion, a text criterion, and one that needs the image
TextCriterion == [id |-> "adherence", name |-> <<"Adherence">>,
                  description |-> <<"follows", SP, "the", SP, "profile">>,
                  scoring_prompt |-> <<"1", SP, "to", SP, "5">>,
                  requires_image |-> FALSE]
ImageCriterion == [id |-> "grounding", name |-> <<"Grounding">>,
                   description |-> <<"matches", SP, "the", SP, "image">>,
                   scoring_prompt |-> <<"1", SP, "to", SP, "5">>,
                   requires_image |-> TRUE]
CriteriaLists == {<<>>, <<TextCriterion>>, <<TextCriterion, ImageCriterion>>}

\* Two judge models: one keeps to the format, one drifts from it
Judges == {"exact", "drifting"}

JudgeReply(j, criterion) ==
    IF j = "exact"
    THEN <<"SCORE:", SP, "4", NL, "RATIONALE:", SP, "fine">>
    ELSE IF criterion.requires_image
    THEN <<"I", SP, "cannot", SP, "see", SP, "it">>
    ELSE <<"**", "SCORE:", SP, "7", NL, "RATIONALE:", NL, "vivid">>

\* load_image_as_base64, as far as the judge is concerned
ImageData(img) == [b64 |-> <<"base64", img.id>>, mime_type |-> "image/jpeg"]

\* _build_image_map: the images that load, in configured order; the ones whose
\* load raises are left out with a warning
RECURSIVE _build_image_map(_, _)
_build_image_map(imgs, failing) ==
    IF imgs = <<>> THEN <<>>
    ELSE (IF Head(imgs).id \in failing THEN <<>>
          ELSE << [id |-> Head(imgs).id, data |-> ImageData(Head(imgs))] >>)
         \o _build_image_map(Tail(imgs), failing)

\* which loads fail: none, or the first image's
LoadFailures(imgs) == {{}} \cup (IF imgs = <<>> THEN {} ELSE {{imgs[1].id}})

\* prompt_map.get(id): {p.id: p for p in prompts}, the last prompt with the id wins
prompt_map(prompts, id) ==
    IF \E k \in 1..Len(prompts) : prompts[k].id = id
    THEN << prompts[CHOOSE k \in 1..Len(prompts) :
                /\ prompts[k].id = id
                /\ \A m \in 1..Len(prompts) : prompts[m].id = id => m <= k] >>
    ELSE None

\* "if not variant: continue": the first result from position r on that has a prompt
NextJudged(rs, prompts, r) ==
    Min({k \in r..(Len(rs) + 1) :
            k = Len(rs) + 1 \/ prompt_map(prompts, rs[k].prompt_variant_id) # None})

EvalScore(result, criterion, parsed_reply) ==
    [run_result_id |-> result.id, criterion_id |-> criterion.id,
     score |-> parsed_reply.score, rationale |-> parsed_reply.rationale,
     source |-> "llm"]

-----------------------------------------------------------------------------
(* main() after save_run, _evaluate_existing, evaluate_results *)

\* evaluate_results is modelled with the parameters evaluator.py declares for it
\* (results, prompts, criteria, judge).  Both call sites also pass image_map=,
\* which that declaration does not take; the map is built and kept in image_map.
\* criteria.yaml is read before the walks and first used here.

\* lines 565-571
BuildPromptsForEval ==
    /\ pc = "saved"
    /\ prompts_for_eval' = _build_prompts_for_eval(all_results, all_assembled_prompts,
                                                   BaseSystemPrompt, images,
                                                   <<assembled_prompt_records>>)
    /\ pc' = "built"
    /\ UNCHANGED <<auxVars, parseVars, runVarsButPc, eval_dir, eval_results, tier, console,
                   criteria, judge, image_map, ri, ci, scores, judge_calls>>

\* lines 574, 592-593: no --evaluate
MainDone ==
    /\ pc = "built"
    /\ pc' = "done"
    /\ UNCHANGED <<auxVars, parseVars, runVarsButPc, evalVars>>

\* lines 574-589 and evaluator.py lines 64-76: --evaluate, up to the first judge call
StartEvaluate(cr, j, failing) ==
    /\ pc = "built"
    /\ criteria' = cr
    /\ judge' = j
    /\ image_map' = _build_image_map(images, failing)
    /\ eval_results' = all_results
    /\ ri' = NextJudged(all_results, prompts_for_eval, 1)
    /\ ci' = 1
    /\ scores' = <<>>
    /\ pc' = "evaluate"
    /\ UNCHANGED <<auxVars, parseVars, runVarsButPc, eval_dir, prompts_for_eval, tier, console,
                   judge_calls>>

\* _evaluate_existing, lines 596-627, and evaluator.py lines 64-76: a later
\* invocation with --evaluate-only on the directory the run was saved to
EvaluateExisting(layout, cr, j, failing) ==
    /\ pc = "done"
    /\ evaluations < MaxEvaluations
    /\ LET d == RunDirAs(run_dir[1], layout)
       IN /\ eval_dir' = <<d>>
          /\ eval_results' = d.results
          /\ prompts_for_eval' = _rebuild_prompts_for_eval(d, d.results, BaseSystemPrompt,
                                                           BaseTemplate, images)
          /\ tier' = SourceOf(d)
          /\ console' = Printed(SourceOf(d))
          /\ ri' = NextJudged(d.results, prompts_for_eval', 1)
    /\ criteria' = cr
    /\ judge' = j
    /\ image_map' = _build_image_map(images, failing)
    /\ ci' = 1
    /\ scores' = <<>>
    /\ pc' = "evaluate"
    /\ UNCHANGED <<auxVars, parseVars, runVarsButPc, judge_calls>>

\* the judge call of the pair (ri, ci), evaluator.py lines 98-112
JudgeCall ==
    LET result == eval_results[ri]
        criterion == criteria[ci]
        variant == prompt_map(prompts_for_eval, result.prompt_variant_id)[1]
    IN [run_result_id |-> result.id,
        criterion_id |-> criterion.id,
        system_prompt |-> JUDGE_SYSTEM_PROMPT,
        user_prompt |-> JudgeUserPrompt(variant, result, criterion),
        image |-> <<>>]

InLoop == pc = "evaluate" /\ criteria # <<>> /\ ri <= Len(eval_results)

\* Mutant: a reply without a score is dropped instead of scored 0
JudgeReturn_DropUnscored ==
    /\ InLoop
    /\ judge_calls' = Append(judge_calls, JudgeCall)
    /\ LET verdict == _parse_judge_response(JudgeReply(judge, criteria[ci]))
       IN scores' = IF verdict.score = 0 THEN scores
                    ELSE Append(scores, EvalScore(eval_results[ri], criteria[ci], verdict))
    /\ IF ci < Len(criteria)
       THEN ci' = ci + 1 /\ ri' = ri
       ELSE ci' = 1 /\ ri' = NextJudged(eval_results, prompts_for_eval, ri + 1)
    /\ UNCHANGED <<auxVars, parseVars, runVars, eval_dir, eval_results, prompts_for_eval, tier,
                   console, criteria, judge, image_map>>

\* evaluator.py lines 92-126: one pass of the inner loop
JudgeReturn ==
    /\ InLoop
    /\ judge_calls' = Append(judge_calls, JudgeCall)
    /\ LET verdict == _parse_judge_response(JudgeReply(judge, criteria[ci]))
       IN scores' = Append(scores, EvalScore(eval_results[ri], criteria[ci], verdict))
    /\ IF ci < Len(criteria)
       THEN ci' = ci + 1 /\ ri' = ri
       ELSE ci' = 1 /\ ri' = NextJudged(eval_results, prompts_for_eval, ri + 1)
    /\ UNCHANGED <<auxVars, parseVars, runVars, eval_dir, eval_results, prompts_for_eval, tier,
                   console, criteria, judge, image_map>>

\* evaluator.py lines 107-112: judge.generate_text raises; nothing catches it
JudgeError ==
    /\ InLoop
    /\ judge_calls' = Append(judge_calls, JudgeCall)
    /\ failure' = "judge"
    /\ pc' = "crashed"
    /\ UNCHANGED <<auxVars, parseVars, diskVars, profile, style, initial_state, variants, vi,
                   all_results, all_assembled_prompts, assembled_prompt_records, run_dir,
                   walkVars, calls, walk_log, eval_dir, eval_results, prompts_for_eval,
                   tier, console, criteria, judge, image_map, ri, ci, scores>>

\* evaluator.py lines 67-69 and 128-129: nothing to evaluate, or the loops are over
EvaluateReturn ==
    /\ pc = "evaluate"
    /\ Len(eval_results) * Len(criteria) = 0 \/ ri > Len(eval_results)
    /\ pc' = "scored"
    /\ UNCHANGED <<auxVars, parseVars, runVarsButPc, evalVars>>

-----------------------------------------------------------------------------
(* Specifications *)

ParseIdle ==
    /\ lines = <<>> /\ form = <<>> /\ text = <<>> /\ parsed = <<>>
    /\ reply = <<>> /\ judged = <<>> /\ context = <<>>

RunIdle ==
    /\ profile = <<>> /\ style = <<>> /\ initial_state = <<>>
    /\ variants = <<>> /\ vi = 0
    /\ all_results = <<>> /\ all_assembled_prompts = <<>>
    /\ assembled_prompt_records = <<>>
    /\ run_dir = <<>>
    /\ i = 0 /\ current_state = <<>> /\ results = <<>> /\ assembled_prompts = <<>>
    /\ next_id = 0
    /\ calls = <<>> /\ walk_log = <<>> /\ failure = "none"

EvalIdle ==
    /\ eval_dir = <<>> /\ eval_results = <<>> /\ prompts_for_eval = <<>>
    /\ tier = 0 /\ console = <<>>
    /\ criteria = <<>> /\ judge = "none" /\ image_map = <<>>
    /\ ri = 0 /\ ci = 0 /\ scores = <<>> /\ judge_calls = <<>>

SumIdle == experiment = <<>> /\ summary = <<>> /\ singles = <<>> /\ shown = <<>>

FreezeIdle == path_spec = <<>> /\ results_json = <<>> /\ resolved = <<>>

StoreIdle == scores_json = <<>> /\ evaluations = 0

OrchIdle ==
    /\ opc = "off" /\ dry_run = FALSE /\ listing = <<>>
    /\ before = <<>> /\ gpt_run_dir = <<>> /\ before_claude = <<>> /\ claude_run_dir = <<>>
    /\ executed = <<>> /\ exit_status = <<>>

AuxIdle == SumIdle /\ FreezeIdle /\ StoreIdle /\ OrchIdle

Init ==
    /\ ParseIdle
    /\ frozen_dir \in FrozenDirs
    /\ variants_file \in VariantFiles
    /\ images \in ImageLists
    /\ pc = "start"
    /\ RunIdle
    /\ EvalIdle
    /\ AuxIdle

Next ==
    \/ LoadArtifacts
    \/ LoadVariants
    \/ StartWalk
    \/ ImageLoadError
    \/ WalkSend
    \/ ProviderError
    \/ \E content \in Responses : ProviderReturn(content)
    \/ WalkReturn
    \/ NoResults
    \/ SaveRun

Spec == Init /\ [][Next]_vars

-----------------------------------------------------------------------------
(* The parser applied to one input text *)

ParseInit ==
    /\ frozen_dir = <<>> /\ variants_file = <<>> /\ images = <<>>
    /\ pc = "off"
    /\ RunIdle
    /\ EvalIdle
    /\ AuxIdle
    /\ parsed = <<>>
    /\ reply = <<>> /\ judged = <<>> /\ context = <<>>
    /\ \/ \E ls \in LineSeqs : lines = ls /\ form = <<>> /\ text = JoinLines(ls, 1)
       \/ \E f \in Forms : lines = <<>> /\ form = <<f>> /\ text = FormText(f)

Parse ==
    /\ parsed = <<>>
    /\ parsed' = <<parse_reflection_and_state(text)>>
    /\ UNCHANGED <<lines, form, text, reply, judged, context, runVars, evalVars, auxVars>>

ParseNext == Parse

SpecParse == ParseInit /\ [][ParseNext]_vars

-----------------------------------------------------------------------------
(* A run followed by its evaluation, at once or by a later --evaluate-only *)

\* the answers of the model under test: one with a [STATE] block, one without
EvalResponses ==
    {<<"[REFLECTION]", NL, "r1", NL, "[STATE]", NL, NL, "restless">>,
     <<"r3">>}

EvalNext ==
    \/ LoadArtifacts
    \/ LoadVariants
    \/ StartWalk
    \/ ImageLoadError
    \/ WalkSend
    \/ ProviderError
    \/ \E content \in EvalResponses : ProviderReturn(content)
    \/ WalkReturn
    \/ NoResults
    \/ SaveRun
    \/ BuildPromptsForEval
    \/ MainDone
    \/ \E cr \in CriteriaLists, j \in Judges, failing \in LoadFailures(images) :
          StartEvaluate(cr, j, failing)
    \/ \E layout \in Layouts, cr \in CriteriaLists, j \in Judges,
          failing \in LoadFailures(images) :
          EvaluateExisting(layout, cr, j, failing)
    \/ JudgeReturn
    \/ JudgeError
    \/ EvaluateReturn

SpecEval == Init /\ [][EvalNext]_vars

-----------------------------------------------------------------------------
(* The judge's reply parser applied to one reply *)

ReplyTokens == {"SCORE:", "score:", "RATIONALE:", SP, NL, "0", "3", "7", "ok"}
Replies == UNION {[1..n -> ReplyTokens] : n \in 0..MaxReply}

JudgeInit ==
    /\ frozen_dir = <<>> /\ variants_file = <<>> /\ images = <<>>
    /\ pc = "off"
    /\ RunIdle
    /\ EvalIdle
    /\ AuxIdle
    /\ lines = <<>> /\ form = <<>> /\ text = <<>> /\ parsed = <<>>
    /\ reply \in Replies
    /\ judged = <<>> /\ context = <<>>

ParseJudge ==
    /\ pc = "off"
    /\ judged = <<>>
    /\ judged' = <<_parse_judge_response(reply)>>
    /\ UNCHANGED <<lines, form, text, parsed, reply, context, runVars, evalVars, auxVars>>

JudgeNext == ParseJudge

SpecJudge == JudgeInit /\ [][JudgeNext]_vars

-----------------------------------------------------------------------------
(* The judge context of one step, as either builder of the prompts sets it *)

ShownPool == ImagePool \cup {[id |-> "d", caption |-> << <<"dusk">> >>]}
ShownLists ==
    {l \in UNION {[1..n -> ShownPool] : n \in 0..MaxShown} :
        \A j, k \in 1..Len(l) : j # k => l[j].id # l[k].id}

ContextInit ==
    /\ frozen_dir = <<>> /\ variants_file = <<>>
    /\ images \in ShownLists
    /\ pc = "off"
    /\ RunIdle
    /\ EvalIdle
    /\ AuxIdle
    /\ ParseIdle

\* the context of the step of the image at position p (from 1), looked up by
\* the image id its result carries: lines 235-251 (main) and 658-665 (existing)
BuildContext(p, builder) ==
    /\ pc = "off"
    /\ context = <<>>
    /\ context' =
         << [position |-> p,
             builder |-> builder,
             judge_context |->
                IF builder = "main"
                THEN _build_sequence_context(images,
                        IF image_index(images, images[p].id) = <<>> THEN 0
                        ELSE image_index(images, images[p].id)[1])
                ELSE _add_context(PromptVariant(<<>>, <<>>, <<>>, <<>>, <<>>),
                                  images[p].id, images).judge_context] >>
    /\ UNCHANGED <<lines, form, text, parsed, reply, judged, runVars, evalVars, auxVars>>

ContextNext ==
    \E p \in 1..Len(images), builder \in {"main", "existing"} : BuildContext(p, builder)

SpecContext == ContextInit /\ [][ContextNext]_vars

-----------------------------------------------------------------------------
(* Properties of the gallery walk *)

NumImages == Len(images)
Completed(e) == e.response # <<>>
\* the prompts recorded so far: those of the walks that returned, then those
\* of the walk in progress
Recorded == all_assembled_prompts \o assembled_prompts
Created == all_results \o results

\* C1: the state carried into step i+1 is the state parsed from step i's
\* response when that is non-empty and otherwise the state carried into
\* step i; the state after a step whose response yields no state is the
\* state before it, and a parse miss never empties the carried state.
C1_StateCarriedForward ==
    \A j \in 1..Len(walk_log) :
        LET e == walk_log[j]
        IN /\ e.state_in # <<>>
           /\ Completed(e) =>
                LET new_state == parse_reflection_and_state(e.response[1]).state
                    after == IF new_state # <<>> THEN new_state ELSE e.state_in
                IN /\ e.state_out[1] = after
                   /\ (pc = "walk" /\ e.v = vi /\ e.k = i - 1) => current_state = after
                   /\ (j < Len(walk_log) /\ walk_log[j + 1].v = e.v)
                         => walk_log[j + 1].state_in = after

\* C1 witness: a step that was given a parsed state (not the initial one) got a
\* response with no state, and the walk stands at the next step
C1_Witness ==
    \E j \in 1..Len(walk_log) :
        /\ j + 1 <= Len(walk_log)
        /\ walk_log[j].v = walk_log[j + 1].v
        /\ Completed(walk_log[j]) /\ Completed(walk_log[j + 1])
        /\ parse_reflection_and_state(walk_log[j].response[1]).state = <<"restless">>
        /\ parse_reflection_and_state(walk_log[j + 1].response[1]).state = <<>>
        /\ walk_log[j + 1].state_in = <<"restless">>
        /\ pc = "walk" /\ vi = walk_log[j].v /\ current_state = <<"restless">>

\* C2: the assembled prompt recorded for a step, and later saved in the
\* assembled-prompt record of that step's result, is the user prompt the
\* generation call of that step was given (caption annotation included).
C2_RecordedPromptIsSentPrompt ==
    /\ Len(Recorded) = Len(calls)
    /\ \A j \in 1..Len(calls) : Recorded[j] = calls[j].user_prompt
    /\ run_dir # <<>> =>
          LET recs == run_dir[1].assembled_prompts[1]
              saved == run_dir[1].results
          IN /\ Len(recs) = Len(calls)
             /\ Len(saved) = Len(calls)
             /\ \A k \in 1..Len(recs) :
                   /\ recs[k].user_prompt = calls[k].user_prompt
                   /\ recs[k].result_id = saved[k].id
                   /\ saved[k].image_id = calls[k].image_id

\* C2 witness: a run of two variants over a captioned and an uncaptioned image
\* has been saved
C2_Witness ==
    /\ run_dir # <<>>
    /\ Len(variants) = 2
    /\ Len(calls) = 4
    /\ \E j \in 1..Len(calls) : calls[j].image_id = "a"
    /\ \E j \in 1..Len(calls) : calls[j].image_id = "b"

\* the prompt each variant's template makes of the artifacts and a state
ExpectedPrompt(variant_id, cs) ==
    CASE variant_id = "base" -> <<"You", "curious", "speak", "terse", "feel">> \o cs
      [] variant_id = "v1" -> cs \o <<"then", "curious", "terse">>
      [] variant_id = "v2" -> <<"as", "terse", "from">> \o cs
ExpectedAnnotation(image_id) ==
    IF image_id = "a"
    THEN <<NL, NL, "The image caption: \"", "a", "bridge", "\"">>
    ELSE <<>>

\* C3: the user prompt sent at a step is the template with profile, style and
\* the state carried into that step substituted, followed by the caption
\* annotation when the image has a (non-empty) caption; with initial state
\* calm, a first response yielding restless and a second yielding no state,
\* step 1 substitutes calm, step 2 restless, and the state after is restless.
C3_PromptSubstitutesCarriedState ==
    /\ Len(calls) = Len(walk_log)
    /\ \A j \in 1..Len(calls) :
          calls[j].user_prompt =
              ExpectedPrompt(variants[walk_log[j].v].id, walk_log[j].state_in)
              \o ExpectedAnnotation(calls[j].image_id)
    /\ \A j \in 1..Len(walk_log) :
          (/\ walk_log[j].k = 1
           /\ j < Len(walk_log)
           /\ walk_log[j + 1].v = walk_log[j].v
           /\ walk_log[j].response =
                 << <<"[REFLECTION]", NL, "r1", NL, "[STATE]", NL, NL, "restless">> >>
           /\ walk_log[j + 1].response = << <<"r3">> >>)
          => /\ calls[j].user_prompt =
                   ExpectedPrompt(variants[walk_log[j].v].id, <<"calm">>)
                   \o ExpectedAnnotation(calls[j].image_id)
             /\ calls[j + 1].user_prompt =
                   ExpectedPrompt(variants[walk_log[j].v].id, <<"restless">>)
                   \o ExpectedAnnotation(calls[j + 1].image_id)
             /\ walk_log[j + 1].state_out = << <<"restless">> >>

\* C3 witness: the two-image scenario has run, on a captioned first image
C3_Witness ==
    \E j \in 1..Len(walk_log) :
        /\ walk_log[j].k = 1
        /\ j < Len(walk_log)
        /\ walk_log[j + 1].v = walk_log[j].v
        /\ calls[j].image_id = "a"
        /\ walk_log[j].response =
              << <<"[REFLECTION]", NL, "r1", NL, "[STATE]", NL, NL, "restless">> >>
        /\ walk_log[j + 1].response = << <<"r3">> >>

\* C4: every variant's walk starts from the same resolved initial state; no
\* state parsed during one variant's walk is carried into another's.
C4_EachWalkStartsFromInitialState ==
    \A j \in 1..Len(walk_log) :
        walk_log[j].k = 1 => walk_log[j].state_in = <<"calm">>

\* C4 witness: the second variant's walk has started after the first variant's
\* walk ended in another state
C4_Witness ==
    \E j \in 2..Len(walk_log) :
        /\ walk_log[j].v = 2
        /\ walk_log[j].k = 1
        /\ walk_log[j - 1].v = 1
        /\ walk_log[j - 1].state_out = << <<"weary">> >>

\* the steps a walk of variant w has sent, and those that produced a result
StepsOf(w) == {j \in 1..Len(walk_log) : walk_log[j].v = w}
\* walk w is over: it returned, or it is the walk main() died in
Returned(w) == w < vi
Stopped(w) == Returned(w) \/ (w = vi /\ pc = "crashed")

\* one call and one result per image, in the configured order
OnePerImage(w) ==
    /\ Cardinality(StepsOf(w)) = NumImages
    /\ \A k \in 1..NumImages :
          LET j == (w - 1) * NumImages + k
          IN /\ j <= Len(calls) /\ j <= Len(Created) /\ j <= Len(Recorded)
             /\ walk_log[j].v = w /\ walk_log[j].k = k
             /\ calls[j].image_id = images[k].id
             /\ Created[j].image_id = images[k].id
             /\ Created[j].raw_response = walk_log[j].response[1]

C6_ProviderErrorIsFatal ==
    failure = "provider" =>
        /\ pc = "crashed"
        /\ ~ ENABLED Next
        /\ Len(calls) = Len(Created) + 1
        /\ ~ Completed(walk_log[Len(walk_log)])
        /\ Len(results) = i - 1
        /\ walk_log[Len(walk_log)].v = vi /\ walk_log[Len(walk_log)].k = i
        /\ \A j \in 1..Len(walk_log) :
              /\ walk_log[j].v <= vi
              /\ walk_log[j].v = vi => walk_log[j].k <= i
        /\ run_dir = <<>>

\* C6 witness: the call for the first of two images failed in the first of two
\* variants' walks
C6_Witness ==
    /\ failure = "provider"
    /\ vi = 1
    /\ Len(variants) = 2
    /\ i = 1
    /\ NumImages = 2

-----------------------------------------------------------------------------
(* Properties of the parser *)

HasToken(t, S) == \E j \in 1..Len(t) : t[j] \in S

\* the marker at position p is followed by a line break and, later, by text
BreakThenText(t, p) ==
    \E j \in (p + 1)..Len(t) :
        /\ t[j] = NL
        /\ \A m \in (p + 1)..j : t[m] \in {SP, NL}
        /\ \E q \in (j + 1)..Len(t) : t[q] \notin {SP, NL}

CanonicalPairFound(t) == HasToken(t, ReflectionTags) /\ HasToken(t, StateTags)
LegacyPairFound(t) == HasToken(t, LegacyReflection) /\ HasToken(t, LegacyState)
OldReactionFound(t) == \E p \in 1..Len(t) : t[p] \in OldReaction /\ BreakThenText(t, p)
OldStateFound(t) == \E p \in 1..Len(t) : t[p] \in OldInternalState /\ BreakThenText(t, p)

CanonicalValues(t) ==
    Pair(strip(reflection_match(strip(t))[1]), strip(state_match(strip(t))[1]))
LegacyValues(t) ==
    Pair(strip(legacy_reflection(strip(t))[1]), strip(legacy_state(strip(t))[1]))
OldValues(t) ==
    Pair(strip(old_reaction(strip(t))[1]), strip(old_state(strip(t))[1]))

\* C7: for text in the canonical tagged form the reflection is what stands
\* between the two markers and the state is everything after the [STATE]
\* marker up to the end of the text, also when it spans several lines.
C7_CanonicalFormParsed ==
    (form # <<>> /\ parsed # <<>>) =>
        parsed[1] = Pair(form[1].refl, form[1].st)

\* C8: for well-formed canonical text the result is the same whether or not
\* each marker is bold, followed by a colon, in another letter case, or
\* followed by its content on the same or on the next line.
C8_DecorationsDoNotMatter ==
    (form # <<>> /\ parsed # <<>>) =>
        parsed[1] = parse_reflection_and_state(
                        FormText([form[1] EXCEPT !.dr = PlainDeco, !.ds = PlainDeco]))

\* C8 witness: a text with both markers bold, lower case, with a colon and the
\* content on the same line has been parsed
C8_Witness ==
    /\ form # <<>>
    /\ parsed # <<>>
    /\ form[1].dr = [bold |-> TRUE, colon |-> TRUE, lower |-> TRUE, sep |-> <<SP>>]
    /\ form[1].ds = [bold |-> TRUE, colon |-> TRUE, lower |-> TRUE, sep |-> <<SP>>]
    /\ parsed[1] = Pair(<<"r1", NL, "r2">>, <<"s1">>)

NoPairFound(t) ==
    /\ ~ CanonicalPairFound(t)
    /\ ~ LegacyPairFound(t)
    /\ ~ (OldReactionFound(t) /\ OldStateFound(t))

-----------------------------------------------------------------------------
(* Properties of prompt reconstruction (_rebuild_prompts_for_eval) *)

\* the run that --evaluate-only was pointed at, as save_run wrote it
SavedRun == run_dir[1]
\* what replay from artifacts.json and the raw responses gives for that run
ReplayOfSavedRun ==
    StateReplay(SavedRun.artifacts, SavedRun.results, BaseSystemPrompt, BaseTemplate, images)

\* C11: when assembled-prompt records exist, the prompts of exact replay are
\* identical, step by step, to the prompts state replay computes from the
\* same artifacts, raw responses and unchanged templates, also for runs with
\* captions and with more than one variant.
C11_ExactReplayEqualsStateReplay ==
    tier = 1 =>
        /\ Len(prompts_for_eval) = Len(ReplayOfSavedRun)
        /\ \A k \in 1..Len(prompts_for_eval) :
              /\ prompts_for_eval[k].user_prompt = ReplayOfSavedRun[k].user_prompt
              /\ prompts_for_eval[k].system_prompt = ReplayOfSavedRun[k].system_prompt

\* C12: state replay substitutes, for every result, the state the walk
\* carried into that step: the initial state for the first step of each
\* variant's walk, the carried-forward state after it.
C12_ReplayedStateIsCarriedState ==
    tier = 2 =>
        /\ Len(prompts_for_eval) = Len(walk_log)
        /\ \A k \in 1..Len(prompts_for_eval) :
              prompts_for_eval[k].user_prompt =
                  format(BaseTemplate, profile, style, walk_log[k].state_in)

\* C13: the sources are tried in order of fidelity and the first available
\* wins: the recorded prompts when assembled_prompts.json is there, else
\* replay when artifacts.json is there, else the raw template; a lower source
\* is never used when a higher one is available.
C13_FirstAvailableSourceWins ==
    tier # 0 =>
        LET d == eval_dir[1]
            n == Len(prompts_for_eval)
        IN /\ n = Len(d.results)
           /\ d.assembled_prompts # None =>
                 /\ tier = 1
                 /\ \A k \in 1..n :
                       prompts_for_eval[k].user_prompt = d.assembled_prompts[1][k].user_prompt
           /\ (d.assembled_prompts = None /\ d.artifacts # None) =>
                 /\ tier = 2
                 /\ \A k \in 1..n :
                       prompts_for_eval[k].name =
                           <<"Stateful reflection (", d.results[k].image_id, ")">>
           /\ (d.assembled_prompts = None /\ d.artifacts = None) =>
                 /\ tier = 3
                 /\ \A k \in 1..n : prompts_for_eval[k].user_prompt = BaseTemplate

\* C13 witness: a directory with both assembled_prompts.json and
\* artifacts.json, of a run with results, has been rebuilt from the records
C13_Witness ==
    /\ tier = 1
    /\ eval_dir[1].artifacts # None
    /\ Len(prompts_for_eval) >= 2

\* C14: in exact replay there is one reconstructed prompt per recorded step,
\* and its user prompt and system prompt are the ones recorded for that step
\* (which are the ones the provider was sent).
C14_ExactReplayUsesRecordsUnmodified ==
    tier = 1 =>
        /\ Len(prompts_for_eval) = Len(assembled_prompt_records)
        /\ Len(prompts_for_eval) = Len(calls)
        /\ \A k \in 1..Len(prompts_for_eval) :
              /\ prompts_for_eval[k].id = assembled_prompt_records[k].prompt_variant_id
              /\ prompts_for_eval[k].user_prompt = assembled_prompt_records[k].user_prompt
              /\ prompts_for_eval[k].system_prompt = assembled_prompt_records[k].system_prompt
              /\ prompts_for_eval[k].user_prompt = calls[k].user_prompt
              /\ prompts_for_eval[k].system_prompt = calls[k].system_prompt

\* C14 witness: exact replay of a run of two variants, one of them with a
\* system prompt of its own, over an image with a caption
C14_Witness ==
    /\ tier = 1
    /\ Len(prompts_for_eval) >= 2
    /\ \E k \in 1..Len(prompts_for_eval) :
          /\ prompts_for_eval[k].system_prompt # BaseSystemPrompt
          /\ \E m \in 1..Len(images) :
                /\ images[m].id = eval_results[k].image_id
                /\ HasCaption(images[m])

\* C15: with neither assembled prompts nor artifacts the reconstruction still
\* returns one prompt per result, each with the unsubstituted template as its
\* user prompt, and prints a warning; replay prints its own notice; exact
\* replay prints nothing.
C15_FallbacksAreFlagged ==
    /\ tier = 3 =>
          /\ pc \in {"evaluate", "scored", "crashed"}
          /\ Len(prompts_for_eval) = Len(eval_results)
          /\ \A k \in 1..Len(prompts_for_eval) :
                prompts_for_eval[k].user_prompt = BaseTemplate
          /\ console = <<RawTemplateWarning>>
    /\ tier = 2 => console = <<ReplayNotice>>
    /\ tier \in {0, 1} => console = <<>>

\* C15 witness: a run of two results, saved without assembled_prompts.json or
\* artifacts.json, has been rebuilt from the raw template
C15_Witness ==
    /\ tier = 3
    /\ eval_dir[1].artifacts = None
    /\ eval_dir[1].assembled_prompts = None
    /\ Len(prompts_for_eval) >= 2
    /\ console # <<>>

-----------------------------------------------------------------------------
(* Properties of the judge context *)

\* the text cut at its newlines
RECURSIVE SplitNL(_)
SplitNL(t) ==
    IF \A j \in 1..Len(t) : t[j] # NL THEN <<t>>
    ELSE LET j == Min({k \in 1..Len(t) : t[k] = NL})
         IN <<SubSeq(t, 1, j - 1)>> \o SplitNL(SubSeq(t, j + 1, Len(t)))

\* a line of the context names the image at position m: its number, its id
\* and, quoted, its caption (its id when it has none)
NamesImage(line, m) ==
    /\ Len(line) >= 6
    /\ line[2] = ToString(m)
    /\ line[4] = images[m].id
    /\ SubSeq(line, 6, Len(line) - 1) =
           (IF images[m].caption = <<>> \/ images[m].caption[1] = <<>>
            THEN <<images[m].id>> ELSE images[m].caption[1])

\* C16: the judge context of the step at position i (from 0) is empty for
\* i = 0; for i > 0 it lists exactly the images at positions 0..i-1, each
\* once, in configured order, by id and caption, and then marks the current
\* image's position, i+1 of N (the marker names the current image as well).
C16_JudgeContextListsEarlierImages ==
    context # <<>> =>
        LET idx == context[1].position - 1
            ls == SplitNL(context[1].judge_context)
        IN /\ idx = 0 => context[1].judge_context = <<>>
           /\ idx > 0 =>
                 /\ Len(ls) = idx + 3
                 /\ ls[1] = <<"Images shown before the current one:">>
                 /\ \A m \in 1..idx : NamesImage(ls[m + 1], m)
                 /\ ls[idx + 2] = <<"Current image (", ToString(idx + 1), " of ",
                                    ToString(Len(images)), "):">>
                 /\ NamesImage(ls[idx + 3], idx + 1)

\* C16 witness: the context of the third of three images, the second of
\* which has no caption, has been built for an existing run
C16_Witness ==
    /\ context # <<>>
    /\ context[1].position = 3
    /\ context[1].builder = "existing"
    /\ Len(images) = 3
    /\ images[2].caption = <<>>
    /\ Len(SplitNL(context[1].judge_context)) = 5

-----------------------------------------------------------------------------
(* Properties of the evaluation (evaluate_results, _parse_judge_response) *)

\* the step that produced the result with this id: results are created one
\* per provider call, in the order of the calls
StepOfResult(id) == CHOOSE k \in 1..Len(all_results) : all_results[k].id = id
CriterionOf(id) == CHOOSE k \in 1..Len(criteria) : criteria[k].id = id

Pairs == {<<eval_results[r].id, criteria[c].id>> :
             r \in 1..Len(eval_results), c \in 1..Len(criteria)}

ImageOf(id) ==
    IF \E k \in 1..Len(image_map) : image_map[k].id = id
    THEN << image_map[CHOOSE k \in 1..Len(image_map) : image_map[k].id = id].data >>
    ELSE <<>>

\* C19: for every pair whose criterion has requires_image set, the judge call
\* carries the image of that result, taken from the image map built once per
\* evaluation pass; the calls of the other criteria are text-only.
C19_ImageAttachedWhenRequired ==
    \A n \in 1..Len(judge_calls) :
        LET r == all_results[StepOfResult(judge_calls[n].run_result_id)]
            c == criteria[CriterionOf(judge_calls[n].criterion_id)]
        IN IF c.requires_image
           THEN judge_calls[n].image = ImageOf(r.image_id)
           ELSE judge_calls[n].image = <<>>

\* a SCORE line: "SCORE:", any whitespace, a digit; j is where it starts and
\* k where its digit is
ScoreLineAt(t, j, k) ==
    /\ j < k
    /\ t[j] = "SCORE:"
    /\ t[k] \in {"0", "1", "2", "3", "4", "5", "6", "7", "8", "9"}
    /\ \A m \in (j + 1)..(k - 1) : t[m] \in {SP, NL}
HasScoreLine(t) == \E j, k \in 1..Len(t) : ScoreLineAt(t, j, k)

\* the digit of a SCORE line, clamped into 1..5
StatedScore(d) ==
    CASE d \in {"0", "1"} -> 1
      [] d = "2" -> 2
      [] d = "3" -> 3
      [] d = "4" -> 4
      [] d \in {"5", "6", "7", "8", "9"} -> 5

\* C20: the parsed score is in 0..5; it is the sentinel 0 exactly when the
\* reply contains no SCORE line, and otherwise it is the digit of the (first)
\* SCORE line clamped into 1..5, so that a stated 0 becomes 1 and a stated
\* 6-9 becomes 5.
C20_ScoreIsSentinelOrClamped ==
    judged # <<>> =>
        /\ judged[1].score \in 0..5
        /\ judged[1].score = 0 <=> ~ HasScoreLine(reply)
        /\ \A j, k \in 1..Len(reply) :
              (/\ ScoreLineAt(reply, j, k)
               /\ \A j2, k2 \in 1..Len(reply) : ScoreLineAt(reply, j2, k2) => j <= j2)
              => judged[1].score = StatedScore(reply[k])

\* C20 witness: a reply whose first SCORE: has no digit and whose second
\* states 7 has been parsed to 5
C20_Witness ==
    /\ reply = <<"SCORE:", "ok", "SCORE:", "7">>
    /\ judged # <<>>
    /\ judged[1].score = 5


-----------------------------------------------------------------------------
(* Properties of the seed artifacts and of what a run saves *)

\* the frozen directory, or one of its three files, is missing
SeedMissing == frozen_dir = <<>> \/ \E f \in ArtifactFiles : f \notin DOMAIN frozen_dir[1]

\* C25: when the frozen directory or one of its three files is missing the
\* run exits before any generation call and before any walk, with nothing
\* saved; a walk that started runs with the profile, the style and the initial
\* state read from the three files.
C25_NoWalkWithoutSeedArtifacts ==
    /\ SeedMissing =>
          /\ pc \in {"start", "exit1"}
          /\ calls = <<>> /\ walk_log = <<>>
          /\ vi = 0 /\ i = 0
          /\ run_dir = <<>>
    /\ (vi > 0 \/ calls # <<>>) =>
          /\ ~ SeedMissing
          /\ profile = strip(frozen_dir[1].profile_txt)
          /\ style = strip(frozen_dir[1].style_txt)
          /\ initial_state = strip(frozen_dir[1].initial_state_txt)

\* C25 witness: the run has exited on a frozen directory that lacks a file,
\* although there were images to walk
C25_Witness ==
    /\ frozen_dir = <<PartialDir>>
    /\ pc = "exit1"
    /\ images # <<>>
    /\ calls = <<>>

\* C28: a run directory exists only once every variant's walk has returned,
\* and it holds the results of all of them; after a failed image load or a
\* failed generation call no run directory exists.
C28_SavedOnlyAfterAllWalks ==
    /\ run_dir # <<>> =>
          /\ failure = "none"
          /\ vi > Len(variants)
          /\ Len(walk_log) = Len(variants) * NumImages
          /\ \A j \in 1..Len(walk_log) : Completed(walk_log[j])
          /\ run_dir[1].results = all_results
          /\ Len(all_results) = Len(walk_log)
    /\ failure \in {"provider", "image"} => run_dir = <<>>

\* C28 witness: the first variant's walk returned with results, then a
\* generation call of the second variant's walk failed
C28_Witness ==
    /\ failure = "provider"
    /\ vi = 2
    /\ all_results # <<>>
    /\ run_dir = <<>>

\* C29: in a saved run the assembled-prompt records and the results
\* correspond one to one in order: record k has result k's id and variant id,
\* the user prompt sent at that step, and the system prompt of the variant
\* whose walk produced result k.
C29_RecordsMatchResults ==
    pc = "saved" =>
        /\ run_dir[1].assembled_prompts # None
        /\ LET saved_results == run_dir[1].results
               records == run_dir[1].assembled_prompts[1]
           IN /\ Len(records) = Len(saved_results)
              /\ Len(records) = Len(calls)
              /\ \A k \in 1..Len(records) :
                    /\ records[k].result_id = saved_results[k].id
                    /\ records[k].prompt_variant_id = saved_results[k].prompt_variant_id
                    /\ records[k].user_prompt = calls[k].user_prompt
                    /\ records[k].system_prompt = calls[k].system_prompt
                    /\ records[k].system_prompt = variants[walk_log[k].v].system_prompt

\* C29 witness: a saved run of two variants, the second with a system prompt
\* of its own
C29_Witness ==
    /\ pc = "saved"
    /\ Len(variants) = 2
    /\ Len(run_dir[1].results) = 2 * NumImages
    /\ NumImages > 0
    /\ \E k \in 1..Len(run_dir[1].assembled_prompts[1]) :
          run_dir[1].assembled_prompts[1][k].system_prompt # BaseSystemPrompt


-----------------------------------------------------------------------------
(* Properties of the rationale of a judge's reply *)

\* RATIONALE: occurs in the reply with something after it
HasRationale(t) == \E j \in 1..(Len(t) - 1) : t[j] = "RATIONALE:"
\* what follows the first RATIONALE: of the reply
AfterRationale(t) ==
    LET first == Min({j \in 1..(Len(t) - 1) : t[j] = "RATIONALE:"})
    IN SubSeq(t, first + 1, Len(t))

\* C21 as stated: without a SCORE line the rationale is the whole reply,
\* whether or not a RATIONALE line is present; with both lines it is what
\* follows RATIONALE:.
C21_RationaleIsReplyWithoutScore ==
    judged # <<>> =>
        /\ ~ HasScoreLine(reply) => judged[1].rationale = strip(reply)
        /\ (HasScoreLine(reply) /\ HasRationale(reply)) =>
              judged[1].rationale = strip(AfterRationale(reply))

\* C21 as amended: with a RATIONALE: that something follows, with or without
\* a SCORE line, the rationale is what follows the first RATIONALE: to the
\* end of the reply, across line breaks, without its surrounding whitespace;
\* otherwise it is the whole reply without its surrounding whitespace.
C21_RationaleFollowsRationaleLine ==
    judged # <<>> =>
        /\ HasRationale(reply) => judged[1].rationale = strip(AfterRationale(reply))
        /\ ~ HasRationale(reply) => judged[1].rationale = strip(reply)

\* C21 witness: a reply of two lines after RATIONALE: and no SCORE line has
\* been parsed to the sentinel score and the two lines
C21_Witness ==
    /\ reply = <<"RATIONALE:", "ok", NL, "ok">>
    /\ judged # <<>>
    /\ judged[1].score = 0
    /\ judged[1].rationale = <<"ok", NL, "ok">>


-----------------------------------------------------------------------------
(* eval_pipeline/summarize.py: the score aggregator, and the score table of *)
(* show_run.  A run directory is [results |-> None or <<results.json>>,     *)
(* scores |-> None or <<scores.json>>]; an experiment is None (no output    *)
(* directory) or << its run directories in name order >>.  A mean is a      *)
(* whole number of hundredths, a table cell a whole number of tenths.       *)

\* the ids of the inputs in string order, as sorted() puts them
IdOrder == <<"?", "adherence", "c1", "c2", "grounding", "i1", "i2", "p1", "p2", "unknown">>
sorted(S) == SelectSeq(IdOrder, LAMBDA x : x \in S)

RECURSIVE sum(_)
sum(vals) == IF vals = <<>> THEN 0 ELSE Head(vals) + sum(Tail(vals))

RECURSIVE Concat(_)
Concat(ss) == IF ss = <<>> THEN <<>> ELSE Head(ss) \o Concat(Tail(ss))

Pow10(ndigits) == IF ndigits = 1 THEN 10 ELSE 100
\* round(total / n, ndigits) in units of 10^-ndigits: to the nearest, a tie
\* (exact in binary for the counts reached here) to the even neighbour
round(total, n, ndigits) ==
    LET q == (Pow10(ndigits) * total) \div n
        r == (Pow10(ndigits) * total) % n
    IN IF 2 * r > n \/ (2 * r = n /\ q % 2 = 1) THEN q + 1 ELSE q

Values(vals) == {vals[j] : j \in 1..Len(vals)}

\* Mutant: every score is collected, the sentinel 0 included
scores_by_key_WithZeros(run_dirs) ==
    LET variant_of(k, id) ==
            LET seen == Concat([j \in 1..k |-> run_dirs[j].results[1]])
                hits == {j \in 1..Len(seen) : seen[j].id = id}
            IN IF hits = {} THEN "unknown" ELSE seen[Max(hits)].prompt_variant_id
        keyed(k) ==
            IF run_dirs[k].scores = None THEN <<>>
            ELSE [j \in 1..Len(run_dirs[k].scores[1]) |->
                     [variant |-> variant_of(k, run_dirs[k].scores[1][j].run_result_id),
                      criterion_id |-> run_dirs[k].scores[1][j].criterion_id,
                      score |-> run_dirs[k].scores[1][j].score]]
    IN Concat([k \in 1..Len(run_dirs) |-> keyed(k)])

\* summarize_experiment lines 35-70: the scores above 0 of all runs in order,
\* each with the variant that result_variant_map gives its result id at that
\* point of the loop ("unknown" when no run so far has the id)
scores_by_key(run_dirs) ==
    LET variant_of(k, id) ==
            LET seen == Concat([j \in 1..k |-> run_dirs[j].results[1]])
                hits == {j \in 1..Len(seen) : seen[j].id = id}
            IN IF hits = {} THEN "unknown" ELSE seen[Max(hits)].prompt_variant_id
        keyed(k) ==
            IF run_dirs[k].scores = None THEN <<>>
            ELSE [j \in 1..Len(run_dirs[k].scores[1]) |->
                     [variant |-> variant_of(k, run_dirs[k].scores[1][j].run_result_id),
                      criterion_id |-> run_dirs[k].scores[1][j].criterion_id,
                      score |-> run_dirs[k].scores[1][j].score]]
    IN Concat([k \in 1..Len(run_dirs) |-> SelectSeq(keyed(k), LAMBDA s : s.score > 0)])

\* the values of one (variant, criterion) key
ValsOf(kept, vid, cid) ==
    LET mine == SelectSeq(kept, LAMBDA s : s.variant = vid /\ s.criterion_id = cid)
    IN [j \in 1..Len(mine) |-> mine[j].score]

\* lines 80-94
Stats(vals) ==
    IF vals # <<>>
    THEN [mean |-> <<round(sum(vals), Len(vals), 2)>>,
          min |-> <<Min(Values(vals))>>,
          max |-> <<Max(Values(vals))>>,
          count |-> Len(vals)]
    ELSE [mean |-> None, min |-> None, max |-> None, count |-> 0]

\* summarize_experiment ({} is None)
summarize_experiment(exp) ==
    IF exp = None THEN None
    ELSE LET run_dirs == SelectSeq(exp[1], LAMBDA d : d.results # None)
             kept == scores_by_key(run_dirs)
             all_variants == sorted({kept[j].variant : j \in 1..Len(kept)})
             all_criteria == sorted({kept[j].criterion_id : j \in 1..Len(kept)})
         IN IF run_dirs = <<>> THEN None
            ELSE << [num_runs |-> Len(run_dirs),
                     runs |-> [k \in 1..Len(run_dirs) |->
                                 [num_results |-> Len(run_dirs[k].results[1]),
                                  num_scores |-> IF run_dirs[k].scores = None THEN 0
                                                 ELSE Len(run_dirs[k].scores[1])]],
                     variants |-> all_variants,
                     criteria |-> all_criteria,
                     scores |-> [vid \in Values(all_variants) |->
                                   [cid \in Values(all_criteria) |->
                                       Stats(ValsOf(kept, vid, cid))]]] >>

\* Mutant: a score of a result that results.json does not list is left out
single_scores_by_key_KnownOnly(d) ==
    LET hits(id) == {j \in 1..Len(d.results[1]) : d.results[1][j].id = id}
        known == IF d.scores = None THEN <<>>
                 ELSE SelectSeq(d.scores[1], LAMBDA s : hits(s.run_result_id) # {})
        keyed == [j \in 1..Len(known) |->
                     [variant |-> d.results[1][Max(hits(known[j].run_result_id))].prompt_variant_id,
                      criterion_id |-> known[j].criterion_id,
                      score |-> known[j].score]]
    IN SelectSeq(keyed, LAMBDA s : s.score > 0)

\* summarize_single_run lines 208-209 and 220-229
single_scores_by_key(d) ==
    LET hits(id) == {j \in 1..Len(d.results[1]) : d.results[1][j].id = id}
        variant_of(id) == IF hits(id) = {} THEN "unknown"
                          ELSE d.results[1][Max(hits(id))].prompt_variant_id
        keyed == IF d.scores = None THEN <<>>
                 ELSE [j \in 1..Len(d.scores[1]) |->
                          [variant |-> variant_of(d.scores[1][j].run_result_id),
                           criterion_id |-> d.scores[1][j].criterion_id,
                           score |-> d.scores[1][j].score]]
    IN SelectSeq(keyed, LAMBDA s : s.score > 0)

\* summarize_single_run ({} is None)
summarize_single_run(d) ==
    IF d.results = None THEN None
    ELSE LET kept == single_scores_by_key(d)
             vals(vid, cid) ==
                 LET mine == SelectSeq(kept, LAMBDA s : s.variant = vid /\ s.criterion_id = cid)
                 IN [j \in 1..Len(mine) |-> mine[j].score]
             all_variants == sorted({kept[j].variant : j \in 1..Len(kept)})
             all_criteria == sorted({kept[j].criterion_id : j \in 1..Len(kept)})
         IN << [num_runs |-> 1,
                runs |-> << [num_results |-> Len(d.results[1]),
                             num_scores |-> IF d.scores = None THEN 0
                                            ELSE Len(d.scores[1])] >>,
                variants |-> all_variants,
                criteria |-> all_criteria,
                scores |-> [vid \in Values(all_variants) |->
                              [cid \in Values(all_criteria) |->
                                  IF vals(vid, cid) # <<>>
                                  THEN [mean |-> <<round(sum(vals(vid, cid)),
                                                         Len(vals(vid, cid)), 2)>>,
                                        min |-> <<Min(Values(vals(vid, cid)))>>,
                                        max |-> <<Max(Values(vals(vid, cid)))>>,
                                        count |-> Len(vals(vid, cid))]
                                  ELSE [mean |-> None, min |-> None, max |-> None,
                                        count |-> 0]]]] >>

\* show_run lines 351-383 of run_stateful.py: the criteria of the table and,
\* per (variant, image) group of scores.json, one cell per criterion: None
\* for "-", or the average of the group's scores to one decimal (no table when
\* there is no scores.json; the rows are printed in sorted order)
show_run(d) ==
    IF d.scores = None \/ d.results = None THEN None
    ELSE LET hits(id) == {j \in 1..Len(d.results[1]) : d.results[1][j].id = id}
             group(id) == IF hits(id) = {} THEN <<"?", "?">>
                          ELSE <<d.results[1][Max(hits(id))].prompt_variant_id,
                                 d.results[1][Max(hits(id))].image_id>>
             scores_raw == d.scores[1]
             criterion_ids == sorted({scores_raw[j].criterion_id : j \in 1..Len(scores_raw)})
             vals(g, cid) ==
                 LET mine == SelectSeq(scores_raw, LAMBDA s :
                                 group(s.run_result_id) = g /\ s.criterion_id = cid)
                 IN [j \in 1..Len(mine) |-> mine[j].score]
         IN << [criteria |-> criterion_ids,
                rows |-> {[variant |-> g[1], image |-> g[2],
                           cells |-> [cid \in Values(criterion_ids) |->
                                        IF vals(g, cid) # <<>>
                                        THEN <<round(sum(vals(g, cid)), Len(vals(g, cid)), 1)>>
                                        ELSE None]] :
                          g \in {group(scores_raw[j].run_result_id) : j \in 1..Len(scores_raw)}}] >>


\* bound: the scores of the first run's scores.json
MaxScores == 2

StoredResult(id, pvid, image_id) == [id |-> id, prompt_variant_id |-> pvid, image_id |-> image_id]
StoredScore(id, cid, n) == [run_result_id |-> id, criterion_id |-> cid, score |-> n]

ResultFiles ==
    { << StoredResult("r1", "p1", "i1") >>,
      << StoredResult("r1", "p1", "i1"), StoredResult("r2", "p2", "i1") >>,
      << StoredResult("r1", "p2", "i1"), StoredResult("r2", "p2", "i2") >> }
ScorePool ==
    { StoredScore("r1", "c1", 0), StoredScore("r1", "c1", 3), StoredScore("r1", "c1", 4),
      StoredScore("r2", "c2", 0), StoredScore("r2", "c2", 5), StoredScore("r9", "c1", 2) }
\* the scores 3, 0, 5, 0, 4 of one result under one criterion
ExampleScores == [j \in 1..5 |-> StoredScore("r1", "c1", <<3, 0, 5, 0, 4>>[j])]
ScoreFiles == UNION {[1..n -> ScorePool] : n \in 0..MaxScores} \cup {ExampleScores}

RunDir(rs, ss) == [results |-> rs, scores |-> ss]
\* a directory without results.json is no run
NoRun == RunDir(None, None)
FirstRuns == {RunDir(<<rs>>, ss) : rs \in ResultFiles, ss \in {<<sf>> : sf \in ScoreFiles} \cup {None}}
               \cup {NoRun}
LaterRuns ==
    { RunDir(<< <<StoredResult("r1", "p2", "i1")>> >>,
             << <<StoredScore("r1", "c1", 5), StoredScore("r2", "c2", 4)>> >>),
      RunDir(<< <<StoredResult("r3", "p1", "i2")>> >>,
             << <<StoredScore("r3", "c2", 0), StoredScore("r3", "c1", 4)>> >>),
      RunDir(<< <<StoredResult("r3", "p1", "i2")>> >>, None) }
Experiments ==
    {None, <<<<>>>>} \cup {<< <<a>> >> : a \in FirstRuns}
        \cup {<< <<a, b>> >> : a \in FirstRuns, b \in LaterRuns}

SumInit ==
    /\ ParseIdle
    /\ frozen_dir = <<>> /\ variants_file = <<>> /\ images = <<>>
    /\ pc = "off"
    /\ RunIdle
    /\ EvalIdle
    /\ FreezeIdle
    /\ StoreIdle
    /\ OrchIdle
    /\ experiment \in Experiments
    /\ summary = <<>>
    /\ singles = IF experiment = None THEN <<>> ELSE [k \in 1..Len(experiment[1]) |-> <<>>]
    /\ shown = <<>>

\* run_experiment.py lines 92-96: --summarize
SummarizeExperiment ==
    /\ pc = "off"
    /\ summary = <<>>
    /\ summary' = <<summarize_experiment(experiment)>>
    /\ UNCHANGED <<parseVars, runVars, evalVars, freezeVars, storeVars, orchVars, experiment, singles, shown>>

\* summarize_single_run on the k-th directory of the experiment
SummarizeSingleRun(k) ==
    /\ pc = "off"
    /\ singles[k] = <<>>
    /\ singles' = [singles EXCEPT ![k] = <<summarize_single_run(experiment[1][k])>>]
    /\ UNCHANGED <<parseVars, runVars, evalVars, freezeVars, storeVars, orchVars, experiment, summary, shown>>

\* show_run on the k-th directory of the experiment
ShowRun(k) ==
    /\ pc = "off"
    /\ experiment[1][k].results # None
    /\ shown' = <<show_run(experiment[1][k])>>
    /\ UNCHANGED <<parseVars, runVars, evalVars, freezeVars, storeVars, orchVars, experiment, summary, singles>>

SumNext ==
    \/ SummarizeExperiment
    \/ \E k \in 1..Len(singles) : SummarizeSingleRun(k)
    \/ \E k \in 1..Len(singles) : ShowRun(k)

SpecSummary == SumInit /\ [][SumNext]_vars


-----------------------------------------------------------------------------
(* Properties of the score aggregator and of the score tables *)

\* the run directories of the experiment that hold a results.json
Runs == IF experiment = None THEN <<>>
        ELSE SelectSeq(experiment[1], LAMBDA d : d.results # None)

\* the variant a score of run k is counted under: that of the last result
\* with the score's result id in the latest run up to k that has the id
VariantAt(k, id) ==
    LET has(m) == \E j \in 1..Len(Runs[m].results[1]) : Runs[m].results[1][j].id = id
        holders == {m \in 1..k : has(m)}
        rs == Runs[Max(holders)].results[1]
    IN IF holders = {} THEN "unknown"
       ELSE rs[Max({j \in 1..Len(rs) : rs[j].id = id})].prompt_variant_id

\* the positions <<run, index>> of the scores above 0 of a pair
NonZero(vid, cid) ==
    {p \in UNION {{<<k, j>> : j \in 1..Len(Runs[k].scores[1])} :
                     k \in {m \in 1..Len(Runs) : Runs[m].scores # None}} :
        /\ Runs[p[1]].scores[1][p[2]].score > 0
        /\ Runs[p[1]].scores[1][p[2]].criterion_id = cid
        /\ VariantAt(p[1], Runs[p[1]].scores[1][p[2]].run_result_id) = vid}
ScoreAt(p) == Runs[p[1]].scores[1][p[2]].score

RECURSIVE Total(_)
Total(ps) == IF ps = {} THEN 0
             ELSE LET p == CHOOSE x \in ps : TRUE IN ScoreAt(p) + Total(ps \ {p})

AllVariants == {"p1", "p2", "unknown"}
AllCriteria == {"c1", "c2"}

\* C22: the summary of an experiment has a variant (criterion) exactly when a
\* score above 0 of some run falls under it; for each pair its count is the
\* number of scores above 0 of all runs under that pair, its min and max are
\* the least and greatest of them, its mean is their average to the nearest
\* hundredth, and a pair without such a score has count 0 and no mean, min
\* or max; the scores 3, 0, 5, 0, 4 give mean 4.00, min 3, max 5, count 3.
C22_SummaryOverNonZeroScores ==
    (summary # <<>> /\ summary[1] # None) =>
        LET s == summary[1][1]
        IN /\ Values(s.variants) =
                 {v \in AllVariants : \E c \in AllCriteria : NonZero(v, c) # {}}
           /\ Values(s.criteria) =
                 {c \in AllCriteria : \E v \in AllVariants : NonZero(v, c) # {}}
           /\ \A v \in Values(s.variants), c \in Values(s.criteria) :
                 LET st == s.scores[v][c]
                     ps == NonZero(v, c)
                 IN /\ st.count = Cardinality(ps)
                    /\ ps = {} => st.mean = None /\ st.min = None /\ st.max = None
                    /\ ps # {} =>
                          /\ st.min = <<Min({ScoreAt(p) : p \in ps})>>
                          /\ st.max = <<Max({ScoreAt(p) : p \in ps})>>
                          /\ st.mean # None
                          /\ 2 * (100 * Total(ps) - st.mean[1] * st.count) <= st.count
                          /\ 2 * (st.mean[1] * st.count - 100 * Total(ps)) <= st.count
           /\ experiment = << << RunDir(<< <<StoredResult("r1", "p1", "i1")>> >>,
                                        <<ExampleScores>>) >> >>
                 => s.scores["p1"]["c1"] =
                       [mean |-> <<400>>, min |-> <<3>>, max |-> <<5>>, count |-> 3]

\* C22 witness: the summary of two runs, both with scores above 0 under
\* (p2, c1), the first with the scores 3, 0, 5, 0, 4
C22_Witness ==
    /\ summary # <<>> /\ summary[1] # None
    /\ Len(Runs) = 2
    /\ Runs[1].scores = <<ExampleScores>>
    /\ Runs[1].results[1][1].prompt_variant_id = "p2"
    /\ summary[1][1].scores["p2"]["c1"] =
          [mean |-> <<425>>, min |-> <<3>>, max |-> <<5>>, count |-> 4]

\* C23: every average of a score table is over the group's scores above 0
\* only: a cell is empty when the group has no score above 0 under the
\* criterion, and otherwise the average of those scores to one decimal.
C23_TableAveragesSkipSentinel ==
    \A k \in 1..Len(singles) :
        (shown # <<>> /\ shown[1] # None /\ experiment[1][k].results # None
            /\ shown = <<show_run(experiment[1][k])>>) =>
            LET d == experiment[1][k]
                group(id) ==
                    LET hits == {j \in 1..Len(d.results[1]) : d.results[1][j].id = id}
                    IN IF hits = {} THEN <<"?", "?">>
                       ELSE <<d.results[1][Max(hits)].prompt_variant_id,
                              d.results[1][Max(hits)].image_id>>
            IN \A row \in shown[1][1].rows : \A c \in DOMAIN row.cells :
                  LET nonzero == SelectSeq(d.scores[1], LAMBDA s :
                                    /\ s.score > 0 /\ s.criterion_id = c
                                    /\ group(s.run_result_id) = <<row.variant, row.image>>)
                      total == sum([j \in 1..Len(nonzero) |-> nonzero[j].score])
                  IN /\ nonzero = <<>> => row.cells[c] = None
                     /\ nonzero # <<>> =>
                           /\ row.cells[c] # None
                           /\ 2 * (10 * total - row.cells[c][1] * Len(nonzero)) <= Len(nonzero)
                           /\ 2 * (row.cells[c][1] * Len(nonzero) - 10 * total) <= Len(nonzero)

\* C24: when exactly one directory of the experiment holds a results.json,
\* the summary of the experiment and the single-run summary of that directory
\* are both empty or have the same variants, criteria and statistics.
C24_SingleRunSummaryAgrees ==
    \A k \in 1..Len(singles) :
        (/\ summary # <<>> /\ singles[k] # <<>>
         /\ Len(Runs) = 1 /\ experiment[1][k].results # None) =>
            /\ summary[1] = None <=> singles[k][1] = None
            /\ summary[1] # None =>
                  /\ summary[1][1].variants = singles[k][1][1].variants
                  /\ summary[1][1].criteria = singles[k][1][1].criteria
                  /\ summary[1][1].scores = singles[k][1][1].scores

\* C24 witness: both summaries of a lone run whose scores.json holds a 0 and a
\* score of a result that results.json does not list
C24_Witness ==
    /\ experiment # None /\ Len(experiment[1]) = 1
    /\ summary # <<>> /\ singles[1] # <<>>
    /\ experiment[1][1].scores = << <<StoredScore("r1", "c1", 0), StoredScore("r9", "c1", 2)>> >>
    /\ summary[1] # None
    /\ summary[1][1].variants = <<"unknown">>
    /\ singles[1][1][1].scores["unknown"]["c1"].count = 1


-----------------------------------------------------------------------------
(* freeze_artifacts.py: a text taken from a results file.  A reference is a *)
(* sequence of tokens, ":" one of them; the only results file that may      *)
(* exist is "gen.json".                                                     *)

\* bounds: the tokens of a reference, the results of the file
MaxSpec == 3
MaxStored == 2

SpecTokens == {"gen.json", "lost.json", COLON, "p1", "p2"}
PathSpecs == UNION {[1..n -> SpecTokens] : n \in 0..MaxSpec}
\* the k-th result of a file has the raw response <<"t", k>>
StoredFiles ==
    {None} \cup
    {<< [k \in 1..Len(ids) |-> [prompt_variant_id |-> ids[k],
                                 raw_response |-> <<"t", ToString(k)>>]] >> :
        ids \in UNION {[1..n -> {"p1", "p2"}] : n \in 0..MaxStored}}

Raised(error, available) == [raised |-> error, text |-> None, available |-> available]
Returned_(t) == [raised |-> "none", text |-> <<t>>, available |-> <<>>]

\* Mutant: without a match the first result is returned
_load_from_results_FirstOnMiss(spec, file) ==
    LET colons == {j \in 1..Len(spec) : spec[j] = COLON}
        results_path == IF colons = {} THEN spec ELSE SubSeq(spec, 1, Max(colons) - 1)
        variant_id == IF colons = {} THEN None
                      ELSE << SubSeq(spec, Max(colons) + 1, Len(spec)) >>
    IN IF results_path # <<"gen.json">> \/ file = None
       THEN Raised("FileNotFoundError", <<>>)
       ELSE LET raw == file[1]
                matches == SelectSeq(raw, LAMBDA r : <<r.prompt_variant_id>> = variant_id[1])
            IN IF variant_id # None /\ variant_id[1] # <<>> /\ matches # <<>>
               THEN Returned_(matches[1].raw_response)
               ELSE IF raw = <<>> THEN Raised("IndexError", <<>>)
               ELSE Returned_(raw[1].raw_response)

\* _load_from_results: what it returns or raises
_load_from_results(spec, file) ==
    LET colons == {j \in 1..Len(spec) : spec[j] = COLON}
        \* path_spec.rsplit(":", 1)
        results_path == IF colons = {} THEN spec ELSE SubSeq(spec, 1, Max(colons) - 1)
        variant_id == IF colons = {} THEN None
                      ELSE << SubSeq(spec, Max(colons) + 1, Len(spec)) >>
    IN IF results_path # <<"gen.json">> \/ file = None
       THEN Raised("FileNotFoundError", <<>>)
       ELSE LET raw == file[1]
                matches == SelectSeq(raw, LAMBDA r : <<r.prompt_variant_id>> = variant_id[1])
            IN IF variant_id # None /\ variant_id[1] # <<>>
               THEN IF matches = <<>>
                    THEN Raised("ValueError",
                                sorted({raw[j].prompt_variant_id : j \in 1..Len(raw)}))
                    ELSE Returned_(matches[1].raw_response)
               ELSE IF raw = <<>> THEN Raised("IndexError", <<>>)
               ELSE Returned_(raw[1].raw_response)

FreezeInit ==
    /\ ParseIdle
    /\ frozen_dir = <<>> /\ variants_file = <<>> /\ images = <<>>
    /\ pc = "off"
    /\ RunIdle
    /\ EvalIdle
    /\ SumIdle
    /\ StoreIdle
    /\ OrchIdle
    /\ path_spec \in PathSpecs
    /\ results_json \in StoredFiles
    /\ resolved = <<>>

\* main line 127: a --profile, --style or --initial-state reference is resolved
LoadFromResults ==
    /\ pc = "off"
    /\ resolved = <<>>
    /\ resolved' = <<_load_from_results(path_spec, results_json)>>
    /\ UNCHANGED <<parseVars, runVars, evalVars, sumVars, storeVars, orchVars, path_spec, results_json>>

SpecFreeze == FreezeInit /\ [][LoadFromResults]_vars

\* C26: a reference "<file>:<variant id>" resolves to the raw response of the
\* first result of the file with that variant id; when the file does not
\* exist a FileNotFoundError is raised, when no result of the file has the id
\* a ValueError that lists the variant ids of the file, sorted, and in both
\* cases no text is returned.
C26_ReferenceResolvesToMatchingResult ==
    (/\ resolved # <<>>
     /\ Len(path_spec) >= 3
     /\ path_spec[Len(path_spec) - 1] = COLON
     /\ path_spec[Len(path_spec)] # COLON) =>
        LET file == SubSeq(path_spec, 1, Len(path_spec) - 2)
            id == path_spec[Len(path_spec)]
            exists == file = <<"gen.json">> /\ results_json # None
            found == {j \in 1..Len(results_json[1]) :
                         results_json[1][j].prompt_variant_id = id}
        IN /\ ~ exists => /\ resolved[1].raised = "FileNotFoundError"
                          /\ resolved[1].text = None
           /\ (exists /\ found = {}) =>
                 /\ resolved[1].raised = "ValueError"
                 /\ resolved[1].text = None
                 /\ Values(resolved[1].available) =
                       {results_json[1][j].prompt_variant_id : j \in 1..Len(results_json[1])}
                 /\ \A j, k \in 1..Len(resolved[1].available) :
                       j < k => resolved[1].available[j] # resolved[1].available[k]
           /\ (exists /\ found # {}) =>
                 /\ resolved[1].raised = "none"
                 /\ resolved[1].text = <<results_json[1][Min(found)].raw_response>>

\* C26 witness: the reference gen.json:p2 resolved to the second of two
\* results, the first being of another variant
C26_Witness ==
    /\ path_spec = <<"gen.json", COLON, "p2">>
    /\ results_json # None
    /\ Len(results_json[1]) = 2
    /\ results_json[1][1].prompt_variant_id = "p1"
    /\ resolved # <<>>
    /\ resolved[1].text = << <<"t", "2">> >>


-----------------------------------------------------------------------------
(* A run, its evaluation, and later evaluations of the saved directory with *)
(* the scores each of them saves                                            *)

\* save_scores (evaluator.py lines 149-154) and show_run, the end of main
\* with --evaluate (lines 589-592) and of _evaluate_existing (lines 636-637):
\* scores.json is written anew with the scores of this evaluation
SaveScores ==
    /\ pc = "scored"
    /\ scores_json' = <<scores>>
    /\ evaluations' = evaluations + 1
    /\ shown' = <<show_run([results |-> <<run_dir[1].results>>, scores |-> scores_json'])>>
    /\ pc' = "done"
    /\ UNCHANGED <<parseVars, runVarsButPc, evalVars, freezeVars, orchVars, experiment, summary, singles>>

StoreInit ==
    /\ Init
    /\ frozen_dir = <<FullDir>>
    /\ variants_file = <<>>

StoreNext ==
    \/ LoadArtifacts
    \/ LoadVariants
    \/ StartWalk
    \/ ImageLoadError
    \/ WalkSend
    \/ ProviderError
    \/ \E content \in EvalResponses : ProviderReturn(content)
    \/ WalkReturn
    \/ NoResults
    \/ SaveRun
    \/ BuildPromptsForEval
    \/ MainDone
    \/ \E j \in Judges : StartEvaluate(<<TextCriterion>>, j, {})
    \/ \E layout \in Layouts, j \in Judges : EvaluateExisting(layout, <<TextCriterion>>, j, {})
    \/ JudgeReturn
    \/ JudgeError
    \/ EvaluateReturn
    \/ SaveScores

SpecStore == StoreInit /\ [][StoreNext]_vars

-----------------------------------------------------------------------------
(* run_contrastive.py: the four steps of run_2x2.  An entry of the output   *)
(* directory is named <<0, t>> (the run directory of timestamp t) or        *)
(* <<1, 0>> (a file such as summary.json, which sorts after every           *)
(* timestamp); <<2, n>> is the placeholder path of a dry run.               *)

NameBefore(a, b) == a[1] < b[1] \/ (a[1] = b[1] /\ a[2] < b[2])

\* _newest_run_dir: the entry that sorts last by name, None without entries
_newest_run_dir(l) ==
    IF l = None \/ l[1] = {} THEN None
    ELSE << CHOOSE n \in l[1] : \A m \in l[1] : m = n \/ NameBefore(m, n) >>

Listings == {None, <<{}>>, <<{<<0, 1>>}>>, <<{<<0, 1>>, <<1, 0>>}>>}

\* what a generation subprocess can do: exit with 0 or not, having saved a
\* run directory under a later timestamp than any there, or none (it saves
\* under config.experiment_id, which need not be the directory's name)
FreshName(l) ==
    IF l = None THEN <<0, 1>>
    ELSE <<0, 1 + Max({0} \cup {n[2] : n \in {m \in l[1] : m[1] = 0}})>>
GenerationOutcomes(l) ==
    {[returncode |-> rc, created |-> c] : rc \in {0, 1}, c \in {None, <<FreshName(l)>>}}
WithEntry(l, created) ==
    IF created = None THEN l
    ELSE IF l = None THEN <<{created[1]}>> ELSE <<l[1] \cup {created[1]}>>

GenerateCmd(provider, model) == [provider |-> provider, model |-> model, evaluate |-> TRUE]
JudgeCmd(target, provider, model) ==
    [evaluate_only |-> target, judge_provider |-> provider, judge_model |-> model]
Execution(step, cmd, out) ==
    [step |-> step, cmd |-> cmd, returncode |-> out.returncode, created |-> out.created]

\* lines 91-94 and 115-118: a new run directory was detected
Detected(was, found) == ~ (found = was \/ found = None)

OrchInit ==
    /\ ParseIdle
    /\ frozen_dir \in FrozenDirs
    /\ variants_file = <<>> /\ images = <<>>
    /\ pc = "off"
    /\ RunIdle
    /\ EvalIdle
    /\ SumIdle /\ FreezeIdle /\ StoreIdle
    /\ opc = "start"
    /\ dry_run \in BOOLEAN
    /\ listing \in Listings
    /\ before = <<>> /\ gpt_run_dir = <<>> /\ before_claude = <<>> /\ claude_run_dir = <<>>
    /\ executed = <<>> /\ exit_status = <<>>

OrchOthers == <<parseVars, runVars, evalVars, sumVars, freezeVars, storeVars, dry_run>>

\* lines 65-84: the experiment and its artifacts/ must exist
Start ==
    /\ opc = "start"
    /\ IF frozen_dir = <<>>
       THEN opc' = "exit" /\ exit_status' = <<1>> /\ before' = before
       ELSE opc' = "step1" /\ exit_status' = exit_status /\ before' = _newest_run_dir(listing)
    /\ UNCHANGED <<OrchOthers, listing, gpt_run_dir, before_claude, claude_run_dir, executed>>

\* Mutant: a failed step does not stop the steps after it
Step1_IgnoreFailure(out) ==
    /\ opc = "step1"
    /\ IF dry_run
       THEN /\ gpt_run_dir' = <<<<2, 1>>>>
            /\ opc' = "step2"
            /\ UNCHANGED <<listing, executed, exit_status>>
       ELSE /\ listing' = WithEntry(listing, out.created)
            /\ executed' = Append(executed,
                                  Execution(1, GenerateCmd("openai", "gpt-5.2"), out))
            /\ gpt_run_dir' = _newest_run_dir(listing')
            /\ IF ~ Detected(before, gpt_run_dir')
               THEN opc' = "exit" /\ exit_status' = <<1>>
               ELSE opc' = "step2" /\ exit_status' = exit_status
    /\ UNCHANGED <<OrchOthers, before, before_claude, claude_run_dir>>

\* lines 86-98 with _run: step 1, GPT generation and self-evaluation
Step1(out) ==
    /\ opc = "step1"
    /\ IF dry_run
       THEN /\ gpt_run_dir' = <<<<2, 1>>>>
            /\ opc' = "step2"
            /\ UNCHANGED <<listing, executed, exit_status>>
       ELSE /\ listing' = WithEntry(listing, out.created)
            /\ executed' = Append(executed,
                                  Execution(1, GenerateCmd("openai", "gpt-5.2"), out))
            /\ IF out.returncode # 0
               THEN opc' = "exit" /\ exit_status' = <<out.returncode>>
                    /\ gpt_run_dir' = gpt_run_dir
               ELSE /\ gpt_run_dir' = _newest_run_dir(listing')
                    /\ IF ~ Detected(before, gpt_run_dir')
                       THEN opc' = "exit" /\ exit_status' = <<1>>
                       ELSE opc' = "step2" /\ exit_status' = exit_status
    /\ UNCHANGED <<OrchOthers, before, before_claude, claude_run_dir>>

\* lines 100-109 with _run: step 2, Claude judges the GPT run
Step2(rc) ==
    /\ opc = "step2"
    /\ IF dry_run
       THEN /\ opc' = "step3"
            /\ before_claude' = _newest_run_dir(listing)
            /\ UNCHANGED <<executed, exit_status>>
       ELSE /\ executed' = Append(executed,
                                  Execution(2, JudgeCmd(gpt_run_dir, "anthropic", "claude-opus-4-6"),
                                            [returncode |-> rc, created |-> None]))
            /\ IF rc # 0
               THEN opc' = "exit" /\ exit_status' = <<rc>> /\ before_claude' = before_claude
               ELSE /\ opc' = "step3" /\ exit_status' = exit_status
                    /\ before_claude' = _newest_run_dir(listing)
    /\ UNCHANGED <<OrchOthers, listing, before, gpt_run_dir, claude_run_dir>>

\* lines 111-122 with _run: step 3, Claude generation and self-evaluation
Step3(out) ==
    /\ opc = "step3"
    /\ IF dry_run
       THEN /\ claude_run_dir' = <<<<2, 3>>>>
            /\ opc' = "step4"
            /\ UNCHANGED <<listing, executed, exit_status>>
       ELSE /\ listing' = WithEntry(listing, out.created)
            /\ executed' = Append(executed,
                                  Execution(3, GenerateCmd("anthropic", "claude-opus-4-6"), out))
            /\ IF out.returncode # 0
               THEN opc' = "exit" /\ exit_status' = <<out.returncode>>
                    /\ claude_run_dir' = claude_run_dir
               ELSE /\ claude_run_dir' = _newest_run_dir(listing')
                    /\ IF ~ Detected(before_claude, claude_run_dir')
                       THEN opc' = "exit" /\ exit_status' = <<1>>
                       ELSE opc' = "step4" /\ exit_status' = exit_status
    /\ UNCHANGED <<OrchOthers, before, gpt_run_dir, before_claude>>

\* lines 124-140 with _run: step 4, GPT judges the Claude run
Step4(rc) ==
    /\ opc = "step4"
    /\ IF dry_run
       THEN /\ opc' = "complete"
            /\ exit_status' = <<0>>
            /\ UNCHANGED executed
       ELSE /\ executed' = Append(executed,
                                  Execution(4, JudgeCmd(claude_run_dir, "openai", "gpt-5.2"),
                                            [returncode |-> rc, created |-> None]))
            /\ IF rc # 0
               THEN opc' = "exit" /\ exit_status' = <<rc>>
               ELSE opc' = "complete" /\ exit_status' = <<0>>
    /\ UNCHANGED <<OrchOthers, listing, before, gpt_run_dir, before_claude, claude_run_dir>>

OrchNext ==
    \/ Start
    \/ \E out \in GenerationOutcomes(listing) : Step1(out)
    \/ \E rc \in {0, 1} : Step2(rc)
    \/ \E out \in GenerationOutcomes(listing) : Step3(out)
    \/ \E rc \in {0, 1} : Step4(rc)

SpecContrastive == OrchInit /\ [][OrchNext]_vars

\* C30: the subprocesses run are steps 1, 2, 3, 4 in this order without a
\* gap: generation with self-evaluation by GPT, cross-judging by Claude,
\* generation with self-evaluation by Claude, cross-judging by GPT; a step
\* runs only after the one before exited with status 0, and a step that
\* exits with another status is the last one, the orchestrator exiting with
\* that status; a cross-judging step evaluates the run directory that the
\* generation step just before it created; a dry run runs no subprocess.
C30_FourStepsInOrder ==
    /\ \A k \in 1..Len(executed) :
          /\ executed[k].step = k
          /\ k > 1 => executed[k - 1].returncode = 0
          /\ executed[k].returncode # 0 =>
                /\ k = Len(executed)
                /\ opc = "exit"
                /\ exit_status = <<executed[k].returncode>>
          /\ k \in {2, 4} =>
                /\ executed[k - 1].created # None
                /\ executed[k].cmd.evaluate_only = executed[k - 1].created
    /\ Len(executed) <= 4
    /\ Len(executed) >= 1 => executed[1].cmd = GenerateCmd("openai", "gpt-5.2")
    /\ Len(executed) >= 2 => executed[2].cmd.judge_provider = "anthropic"
    /\ Len(executed) >= 3 => executed[3].cmd = GenerateCmd("anthropic", "claude-opus-4-6")
    /\ Len(executed) >= 4 => executed[4].cmd.judge_provider = "openai"
    /\ opc = "complete" => (dry_run \/ Len(executed) = 4)
    /\ dry_run => executed = <<>>

\* C30 witness: all four steps ran where an earlier run directory existed, and
\* the two cross-judging steps evaluated the two new directories
C30_Witness ==
    /\ opc = "complete"
    /\ ~ dry_run
    /\ Len(executed) = 4
    /\ executed[2].cmd.evaluate_only = << <<0, 2>> >>
    /\ executed[4].cmd.evaluate_only = << <<0, 3>> >>

=============================================================================
